---------------------------- MODULE Spec2Model ----------------------------
(***************************************************************************)
(* Model of numba_cuda/numba/cuda/cudadrv/nvvm.py.                         *)
(*                                                                         *)
(* Part 1: the CAS-loop atomics that llvm_replace substitutes for the      *)
(* ___numba_atomic_* declarations.  Each invocation is a thread running    *)
(* its template; one action is one access to the shared word (the volatile *)
(* load, or one cmpxchg) together with the register-only instructions that *)
(* follow it up to the next access or the ret.  The memory word is a bit   *)
(* pattern: floating-point templates reinterpret it                        *)
(* with bitcast, so a float IS its bit pattern here and the arithmetic and *)
(* the comparisons decode it.  The float format is IEEE-754 scaled down to *)
(* 4 bits (1 sign, 2 exponent, 1 mantissa bit, bias 1) and the integer of  *)
(* inc/dec is scaled down to IntBits bits.                                 *)
(***************************************************************************)
EXTENDS Integers, Sequences, FiniteSets, TLC

(***************************************************************************)
(* Bounds                                                                  *)
(***************************************************************************)
\* number of concurrent invocations on the word
NThreads == 2
\* how many of the sample float patterns of FloatList are used as inputs
NFloats == 4
\* width of the scaled-down unsigned integer of inc/dec (i64 in the source)
IntBits == 2

Threads == 1..NThreads

\* a register that holds no value yet
Undef == 0 - 1

(***************************************************************************)
(* Scaled-down IEEE-754 binary format: bit pattern = 8*sign + 2*exp + man. *)
(* exp = 0: subnormal man/2; exp = 1,2: (1 + man/2) * 2^(exp-1);           *)
(* exp = 3: infinity (man = 0) or NaN (man = 1).  Magnitudes are kept in   *)
(* units of 1/2 so they are integers.                                      *)
(***************************************************************************)
FPack(s, e, m) == 8 * s + 2 * e + m
FBits == 0..FPack(1, 3, 1)
FSign(b) == b \div 8
FExp(b) == (b % 8) \div 2
FMan(b) == b % 2
IsNaN(b) == FExp(b) = 3 /\ FMan(b) = 1
IsInf(b) == FExp(b) = 3 /\ FMan(b) = 0
QNaN == FPack(0, 3, 1)

\* magnitude in half units; infinity is above every finite magnitude
FMag(b) ==
  IF FExp(b) = 0 THEN FMan(b)
  ELSE IF FExp(b) = 1 THEN 2 + FMan(b)
  ELSE IF FExp(b) = 2 THEN 2 * (2 + FMan(b))
  ELSE 16

FVal(b) == IF FSign(b) = 1 THEN 0 - FMag(b) ELSE FMag(b)

\* round-to-nearest-even of a magnitude m (half units) with the given sign
FRound(s, m) ==
  IF m >= 7 THEN FPack(s, 3, 0)
  ELSE IF m >= 4 THEN FPack(s, 2, IF m = 6 THEN 1 ELSE 0)
  ELSE IF m >= 2 THEN FPack(s, 1, m - 2)
  ELSE FPack(s, 0, m)

FNeg(b) == (b + 8) % 16

\* fadd: NaN operands and inf - inf give the canonical NaN
FAdd(a, b) ==
  IF IsNaN(a) \/ IsNaN(b) THEN QNaN
  ELSE IF IsInf(a) /\ IsInf(b) THEN (IF FSign(a) = FSign(b) THEN a ELSE QNaN)
  ELSE IF IsInf(a) THEN a
  ELSE IF IsInf(b) THEN b
  ELSE LET s == FVal(a) + FVal(b) IN
       IF s = 0 THEN FPack(IF FSign(a) = 1 /\ FSign(b) = 1 THEN 1 ELSE 0, 0, 0)
       ELSE IF s < 0 THEN FRound(1, 0 - s)
       ELSE FRound(0, s)

FSub(a, b) == FAdd(a, FNeg(b))

\* fcmp uno: either operand is a NaN
FUno(a, b) == IsNaN(a) \/ IsNaN(b)

(***************************************************************************)
(* fcmp {OP}: the set of results the instruction can produce.  With the    *)
(* nnan fast-math flag the result is undefined when an operand is a NaN.   *)
(***************************************************************************)
FCmp_ordered_only(OP, a, b) ==
  IF OP = "nnan olt" THEN (IF FUno(a, b) THEN BOOLEAN ELSE {FVal(a) < FVal(b)})
  ELSE IF OP = "nnan ogt" THEN (IF FUno(a, b) THEN BOOLEAN ELSE {FVal(a) > FVal(b)})
  ELSE IF OP = "ult" THEN {~FUno(a, b) /\ FVal(a) < FVal(b)}
  ELSE IF OP = "ugt" THEN {~FUno(a, b) /\ FVal(a) > FVal(b)}
  ELSE {}

FCmp(OP, a, b) ==
  IF OP = "nnan olt" THEN (IF FUno(a, b) THEN BOOLEAN ELSE {FVal(a) < FVal(b)})
  ELSE IF OP = "nnan ogt" THEN (IF FUno(a, b) THEN BOOLEAN ELSE {FVal(a) > FVal(b)})
  ELSE IF OP = "ult" THEN {FUno(a, b) \/ FVal(a) < FVal(b)}
  ELSE IF OP = "ugt" THEN {FUno(a, b) \/ FVal(a) > FVal(b)}
  ELSE {}


(***************************************************************************)
(* Sample inputs of the float templates: 1/2, -1, NaN, 3 (the largest      *)
(* finite value), 1, -0, +inf, +0, ... ; the first NFloats are used.       *)
(***************************************************************************)
FloatList ==
  << FPack(0, 0, 1), FPack(1, 1, 0), QNaN, FPack(0, 2, 1), FPack(0, 1, 0),
     FPack(1, 0, 0), FPack(0, 3, 0), FPack(0, 0, 0), FPack(1, 3, 1),
     FPack(1, 3, 0), FPack(0, 1, 1), FPack(0, 2, 0), FPack(1, 0, 1),
     FPack(1, 1, 1), FPack(1, 2, 0), FPack(1, 2, 1) >>

Min(a, b) == IF a < b THEN a ELSE b

FloatWords == {FloatList[i] : i \in 1..Min(NFloats, Len(FloatList))}

\* the unsigned integers of IntBits bits
Mod == 2 ^ IntBits
IntWords == 0..(Mod - 1)

(***************************************************************************)
(* llvm_replace's table: one row per substituted declaration, with the     *)
(* parameters its template is formatted with.  tmpl names the template.    *)
(***************************************************************************)
Row(tmpl, T, Ti, NAN, OP, PTR_OR_VAL, FUNC) ==
  [tmpl |-> tmpl, T |-> T, Ti |-> Ti, NAN |-> NAN, OP |-> OP,
   PTR_OR_VAL |-> PTR_OR_VAL, FUNC |-> FUNC]

replacements ==
  << Row("binary", "double", "i64", "", "fadd", "", "add"),
     Row("binary", "float", "i32", "", "fsub", "", "sub"),
     Row("binary", "double", "i64", "", "fsub", "", "sub"),
     Row("inc", "i64", "i64", "", "", "", "inc"),
     Row("dec", "i64", "i64", "", "", "", "dec"),
     Row("minmax", "float", "i32", "", "nnan olt", "ptr", "max"),
     Row("minmax", "double", "i64", "", "nnan olt", "ptr", "max"),
     Row("minmax", "float", "i32", "", "nnan ogt", "ptr", "min"),
     Row("minmax", "double", "i64", "", "nnan ogt", "ptr", "min"),
     Row("minmax", "float", "i32", "nan", "ult", "", "max"),
     Row("minmax", "double", "i64", "nan", "ult", "", "max"),
     Row("minmax", "float", "i32", "nan", "ugt", "", "min"),
     Row("minmax", "double", "i64", "nan", "ugt", "", "min") >>

RowsOf(tmpls) == {i \in 1..Len(replacements) : replacements[i].tmpl \in tmpls}

VARIABLES
  mem,      \* the memory word all invocations operate on (a bit pattern)
  fn,       \* fn[t]: the row of replacements thread t's invocation runs
  val,      \* val[t]: %val, the operand
  pc,       \* pc[t]: "entry" before the load, "attempt" before a cmpxchg, "ret" once returned
  old2,     \* old2[t]: %old2 (%ptrval in the min/max template), the initial load
  old,      \* old[t]: the phi %old (%dold in the min/max template)
  cas,      \* cas[t]: %cas (%dcas), field 0 of the last cmpxchg; Undef before the first
  early,    \* early[t]: %early_return
  result,   \* result[t]: the returned value
  mem0,     \* observer: the initial contents of the word
  hist,     \* observer: threads of binary/inc/dec in the order their CAS succeeded
  pre,      \* observer: pre[t] = contents right before t's latest successful CAS
  changed   \* observer: changed[t] = another thread's successful CAS has changed the
            \* word since t, now before a cmpxchg, last read it (by its load or cmpxchg)

atomVars ==
  << mem, fn, val, pc, old2, old, cas, early, result, mem0, hist, pre, changed >>

\* Part 2, the NVVM singleton (class NVVM, _nvvm_lock) and the native library
VARIABLES
  lib,        \* the native library of this process: the function it lacks, nvvmIRVersion's result
  nvvm_lock,  \* _nvvm_lock: 0 when free, else the thread holding it
  NVVM_INSTANCE,   \* NVVM.__INSTANCE: 0 for None, else the index in objs of the instance
  objs,       \* the NVVM objects created so far: driver, populated functions, IR-version fields
  npc,        \* npc[t]: position of thread t inside NVVM()
  inst,       \* inst[t]: the local inst of __new__ (0: not assigned)
  self,       \* self[t]: what __new__ returned to thread t (0: nothing yet)
  exc,        \* exc[t]: the exception that left thread t's current call (NoExc: none)
  nLoad,      \* observer: how many times open_cudalib("nvvm") returned the library
  nPopulate,  \* observer: how many times the loop over _PROTOTYPES was entered
  irWrites    \* observer: how many times __init__ stored the four IR-version fields

nvvmVars ==
  << lib, nvvm_lock, NVVM_INSTANCE, objs, npc, inst, self, exc, nLoad, nPopulate,
     irWrites >>

\* Part 3, compile_ir with its CompilationUnit and LibDevice (one caller)
VARIABLES
  cpc,        \* position of the caller inside compile_ir / CompilationUnit.__del__
  lpc,        \* position inside one native call followed by _try_error / get_log
  ncompile,   \* how many compile_ir calls were started
  llvmir,     \* compile_ir's llvmir after the isinstance(llvmir, str) normalisation
  kwopts,     \* compile_ir's options dict after the fastmath expansion
  args,       \* the arguments the running compile_ir was called with: llvmir and **options
  nadded,     \* how many modules of llvmir the for loop has added
  cu,         \* the CompilationUnit: driver, _handle, options, n_options, log
  prog,       \* the native program: its modules, diagnostic log and compiled result
  perr,       \* the err a native call returned, on its way to _try_error
  logtxt,     \* what the running get_log() has retrieved
  outbuf,     \* compile()'s reslen / output_buffer
  libdevice_file,  \* get_libdevice(): "" for None, else the file
  LibDevice_cache, \* the class attribute LibDevice._cache_
  ld,         \* the LibDevice object of the running compile_ir: its _cache_ and bc
  ret,        \* what the latest compile_ir returned (NoRet: nothing)
  raised,     \* the exception that left the latest compile_ir (NoExc: none)
  warned,     \* the NvvmWarning texts issued by the running compile_ir
  unraisable, \* exceptions the interpreter ignored because they left a __del__
  exitcode,   \* Undef while the process runs, else the status it exited with
  calls,      \* observer: the native calls of the running compile_ir, in order
  nOpen       \* observer: how many times open_libdevice() opened the file

cuVars ==
  << cpc, lpc, ncompile, llvmir, kwopts, args, nadded, cu, prog, perr, logtxt, outbuf,
     libdevice_file, LibDevice_cache, ld, ret, raised, warned, unraisable, exitcode,
     calls, nOpen >>

\* Part 4, the functions applied to IR text and to llvmlite modules
VARIABLES
  ir_in,      \* the IR text llvm_replace was first given
  passes,     \* the outcome of each llvm_replace pass so far, each applied to the text before it
  module,     \* the llvmlite module: its metadata nodes, named metadata and global variables
  attributes, \* attributes[f]: function.attributes of function f of the module
  kcall,      \* the latest set_cuda_kernel / set_launch_bounds call: its number, its
              \* arguments, and the module and attributes it found
  kexc,       \* the exception that call raised (NoExc: it returned)
  walk        \* the position of a walk through the instructions of a synthesized
              \* function, with what it has executed in the current loop iteration

irVars == << ir_in, passes, module, attributes, kcall, kexc, walk >>

vars == << atomVars, nvvmVars, cuVars, irVars >>

\* Python's None where the other values are strings
None == "None"

\* no exception is propagating
NoExc == [type |-> "none"]

\* compile_ir has not returned anything
NoRet == [set |-> FALSE]

\* no compile_ir call yet
NoCall == [llvmir |-> [ty |-> "list", v |-> << >>], options |-> << >>]

\* no CompilationUnit object: none of its attributes is set
NoCU == [driver |-> 0, handle |-> "unset", options |-> << >>, n_options |-> Undef,
         log |-> None]

\* no native program
NoProg == [modules |-> << >>, log |-> "", result |-> ""]

\* no LibDevice object: the instance has no _cache_ and no bc attribute
NoLD == [cache |-> "unset", bc |-> "unset"]

\* the state of class NVVM and _nvvm_lock when the module is imported, with
\* every thread at position p
NvvmStart(p) ==
  /\ nvvm_lock = 0
  /\ NVVM_INSTANCE = 0
  /\ objs = << >>
  /\ npc = [t \in Threads |-> p]
  /\ inst = [t \in Threads |-> 0]
  /\ self = [t \in Threads |-> 0]
  /\ exc = [t \in Threads |-> NoExc]
  /\ nLoad = 0
  /\ nPopulate = 0
  /\ irWrites = 0

\* no compile_ir call has been made; LibDevice._cache_ = None (line 361)
CuStart ==
  /\ cpc = "idle"
  /\ lpc = "none"
  /\ ncompile = 0
  /\ llvmir = << >>
  /\ kwopts = << >>
  /\ args = NoCall
  /\ nadded = 0
  /\ cu = NoCU
  /\ prog = NoProg
  /\ perr = 0
  /\ logtxt = ""
  /\ outbuf = [size |-> 0, buf |-> ""]
  /\ LibDevice_cache = None
  /\ ld = NoLD
  /\ ret = NoRet
  /\ raised = NoExc
  /\ warned = << >>
  /\ unraisable = << >>
  /\ exitcode = Undef
  /\ calls = << >>
  /\ nOpen = 0

\* the functions of the module the annotator is given
Functions == {"kernel", "helper"}

\* a module as the code generator hands it over: no metadata, no named
\* metadata, no global variable apart from its functions
NoModule == [metadata |-> << >>, named |-> << >>, globals |-> << >>]

\* no call of the annotator yet
NoKCall == [f |-> "none", n |-> 0]

\* no IR text is being rewritten
TextIdle ==
  /\ ir_in = << >>
  /\ passes = << >>

\* no module is being annotated
ModuleIdle ==
  /\ module = NoModule
  /\ attributes = [f \in Functions |-> {}]
  /\ kcall = NoKCall
  /\ kexc = NoExc

\* no synthesized function is being walked
NoWalk ==
  [row |-> 0, blk |-> "none", ip |-> 0, ncas |-> 0, ndec |-> 0, cmps |-> {},
   pend |-> FALSE, iters |-> 0, last |-> [cas |-> 0, dec |-> 0],
   left |-> FALSE, exit |-> [cas |-> 0, dec |-> 0]]

WalkIdle == walk = NoWalk

IrIdle == TextIdle /\ ModuleIdle /\ WalkIdle

\* the atomics run on the device: the compiler driver takes no part
DriverIdle ==
  /\ lib = [missing |-> "", irErr |-> 0, irVer |-> << >>]
  /\ libdevice_file = None
  /\ NvvmStart("idle")
  /\ CuStart

row(t) == replacements[fn[t]]

(***************************************************************************)
(* cas_nvvm: cmpxchg volatile iptr, old, new.  The instruction yields the  *)
(* pair {contents found, success}; the templates extract field 0 as %cas.  *)
(* mem is the contents of the word after the instruction.                  *)
(***************************************************************************)
cas_nvvm_store_always(cur, o, new) ==
  [mem |-> new, cas |-> cur, ok |-> TRUE]

cas_nvvm(cur, o, new) ==
  [mem |-> IF cur = o THEN new ELSE cur, cas |-> cur, ok |-> (cur = o)]

(***************************************************************************)
(* The invocations: every thread is at the entry of the function of one    *)
(* row, all rows of one element type T, with operands and initial contents *)
(* from Words.  Invocations are interchangeable, so only the assignments   *)
(* in nondecreasing (row, operand) order are enumerated.                   *)
(***************************************************************************)
InitAtomic(Rows, Words) ==
  /\ mem \in Words
  /\ fn \in [Threads -> Rows]
  /\ val \in [Threads -> Words]
  /\ \A t, u \in Threads :
       /\ replacements[fn[t]].T = replacements[fn[u]].T
       /\ t < u => (fn[t] < fn[u] \/ (fn[t] = fn[u] /\ val[t] <= val[u]))
  /\ pc = [t \in Threads |-> "entry"]
  /\ old2 = [t \in Threads |-> Undef]
  /\ old = [t \in Threads |-> Undef]
  /\ cas = [t \in Threads |-> Undef]
  /\ early = [t \in Threads |-> FALSE]
  /\ result = [t \in Threads |-> Undef]
  /\ mem0 = mem
  /\ hist = << >>
  /\ pre = [t \in Threads |-> Undef]
  /\ changed = [t \in Threads |-> FALSE]

(***************************************************************************)
(* Steps shared by the binary, inc and dec templates.                      *)
(***************************************************************************)
\* entry: %old2 = load volatile; br label %attempt (the phi %old takes %old2)
EntryStep(t) ==
  /\ pc[t] = "entry"
  /\ old2' = [old2 EXCEPT ![t] = mem]
  /\ old' = [old EXCEPT ![t] = mem]
  /\ pc' = [pc EXCEPT ![t] = "attempt"]
  /\ UNCHANGED << mem, fn, val, cas, early, result, mem0, hist, pre, changed >>
  /\ UNCHANGED << nvvmVars, cuVars, irVars >>

\* the observer changed after thread t's cmpxchg with outcome r: t has read the
\* word, and the threads waiting before a cmpxchg see a successful change
Observed(t, r) ==
  [u \in Threads |->
     IF u = t THEN FALSE
     ELSE changed[u] \/ (pc[u] = "attempt" /\ r.ok /\ r.mem # mem)]

\* %repeat = icmp ne %cas, %old
repeat(c, o) == c # o

\* the phi %old takes %cas on the back edge of attempt
phi_old(c, o2) == c

\* done: the value returned, %old (not the initial load %old2)
ret_old2(o, o2) == o2

ret_old(o, o2) == o

\* attempt: the cmpxchg of %old -> new, then br %repeat, %attempt, %done
AttemptStep(t, new) ==
  LET r == cas_nvvm(mem, old[t], new) IN
  /\ pc[t] = "attempt"
  /\ mem' = r.mem
  /\ cas' = [cas EXCEPT ![t] = r.cas]
  /\ IF repeat(r.cas, old[t])
       THEN /\ old' = [old EXCEPT ![t] = phi_old(r.cas, old2[t])]
            /\ UNCHANGED << pc, result >>
       ELSE /\ result' = [result EXCEPT ![t] = ret_old(old[t], old2[t])]
            /\ pc' = [pc EXCEPT ![t] = "ret"]
            /\ old' = old
  /\ IF r.ok
       THEN /\ hist' = Append(hist, t)
            /\ pre' = [pre EXCEPT ![t] = mem]
       ELSE UNCHANGED << hist, pre >>
  /\ changed' = Observed(t, r)
  /\ UNCHANGED << fn, val, old2, early, mem0 >>
  /\ UNCHANGED << nvvmVars, cuVars, irVars >>

(***************************************************************************)
(* ir_numba_atomic_binary_template                                         *)
(***************************************************************************)
\* %dold = bitcast %old; %dnew = {OP} %dold, %val; %new = bitcast %dnew
binary_new(OP, o, v) == IF OP = "fadd" THEN FAdd(o, v) ELSE FSub(o, v)

BinaryEntry(t) == row(t).tmpl = "binary" /\ EntryStep(t)

BinaryAttempt(t) ==
  /\ row(t).tmpl = "binary"
  /\ pc[t] = "attempt"
  /\ AttemptStep(t, binary_new(row(t).OP, old[t], val[t]))

BinaryRows == RowsOf({"binary"})

InitBinary == InitAtomic(BinaryRows, FloatWords) /\ DriverIdle /\ IrIdle

NextBinary == \E t \in Threads : BinaryEntry(t) \/ BinaryAttempt(t)

SpecBinary == InitBinary /\ [][NextBinary]_vars

(***************************************************************************)
(* ir_numba_atomic_inc_template and ir_numba_atomic_dec_template           *)
(***************************************************************************)
\* %bndchk = icmp ult %old, %val; %inc = add %old, 1; %new = select %bndchk, %inc, 0
inc_new_ule(o, v) == IF o <= v THEN (o + 1) % Mod ELSE 0

inc_new(o, v) == IF o < v THEN (o + 1) % Mod ELSE 0

\* %dec = add %old, -1; %bndchk = icmp ult %dec, %val; %new = select %bndchk, %dec, %val
dec_new_no_wrap(o, v) ==
  LET dec == IF o = 0 THEN 0 ELSE o - 1 IN IF dec < v THEN dec ELSE v

dec_new(o, v) ==
  LET dec == (o + Mod - 1) % Mod IN IF dec < v THEN dec ELSE v

IncEntry(t) == row(t).tmpl = "inc" /\ EntryStep(t)

IncAttempt(t) ==
  /\ row(t).tmpl = "inc"
  /\ pc[t] = "attempt"
  /\ AttemptStep(t, inc_new(old[t], val[t]))

DecEntry(t) == row(t).tmpl = "dec" /\ EntryStep(t)

DecAttempt(t) ==
  /\ row(t).tmpl = "dec"
  /\ pc[t] = "attempt"
  /\ AttemptStep(t, dec_new(old[t], val[t]))

IncDecRows == RowsOf({"inc", "dec"})

InitIncDec == InitAtomic(IncDecRows, IntWords) /\ DriverIdle /\ IrIdle

NextIncDec ==
  \E t \in Threads :
    IncEntry(t) \/ IncAttempt(t) \/ DecEntry(t) \/ DecAttempt(t)

SpecIncDec == InitIncDec /\ [][NextIncDec]_vars

(***************************************************************************)
(* ir_numba_atomic_minmax_template                                         *)
(***************************************************************************)
\* %early_return = fcmp uno %val, %{PTR_OR_VAL}val
early_return_operand_only(PTR_OR_VAL, v, p) == FUno(v, v)

early_return_swapped(PTR_OR_VAL, v, p) ==
  FUno(v, IF PTR_OR_VAL = "ptr" THEN v ELSE p)

early_return(PTR_OR_VAL, v, p) ==
  FUno(v, IF PTR_OR_VAL = "ptr" THEN p ELSE v)

\* lt_check: %cmp = fcmp {OP} %dold, %val; br %cmp, %attempt, %done.
\* The blocks that can follow lt_check, "ret" standing for done.
lt_check_inverted(OP, dold, v) ==
  {IF c THEN "ret" ELSE "attempt" : c \in FCmp(OP, dold, v)}

lt_check(OP, dold, v) ==
  {IF c THEN "attempt" ELSE "ret" : c \in FCmp(OP, dold, v)}

\* done: ret %ptrval (the initial load, not the phi %dold)
minmax_ret_dold(p, dold) == dold

minmax_ret(p, dold) == p

\* entry: %ptrval = load volatile; br %early_return, %done, %lt_check
MinMaxEntry(t) ==
  /\ row(t).tmpl = "minmax"
  /\ pc[t] = "entry"
  /\ old2' = [old2 EXCEPT ![t] = mem]
  /\ old' = [old EXCEPT ![t] = mem]
  /\ early' = [early EXCEPT ![t] = early_return(row(t).PTR_OR_VAL, val[t], mem)]
  /\ \E next \in IF early'[t] THEN {"ret"} ELSE lt_check(row(t).OP, mem, val[t]) :
       /\ pc' = [pc EXCEPT ![t] = next]
       /\ result' = IF next = "ret"
                      THEN [result EXCEPT ![t] = minmax_ret(mem, mem)]
                      ELSE result
  /\ UNCHANGED << mem, fn, val, cas, mem0, hist, pre, changed >>
  /\ UNCHANGED << nvvmVars, cuVars, irVars >>

\* attempt: cmpxchg %old -> %new = %val; %dcas feeds the phi %dold; br %lt_check
MinMaxAttempt(t) ==
  LET r == cas_nvvm(mem, old[t], val[t]) IN
  /\ row(t).tmpl = "minmax"
  /\ pc[t] = "attempt"
  /\ mem' = r.mem
  /\ cas' = [cas EXCEPT ![t] = r.cas]
  /\ old' = [old EXCEPT ![t] = r.cas]
  /\ \E next \in lt_check(row(t).OP, r.cas, val[t]) :
       /\ pc' = [pc EXCEPT ![t] = next]
       /\ result' = IF next = "ret"
                      THEN [result EXCEPT ![t] = minmax_ret(old2[t], r.cas)]
                      ELSE result
  /\ pre' = IF r.ok THEN [pre EXCEPT ![t] = mem] ELSE pre
  /\ changed' = Observed(t, r)
  /\ UNCHANGED << fn, val, old2, early, mem0, hist >>
  /\ UNCHANGED << nvvmVars, cuVars, irVars >>

MinMaxRows == RowsOf({"minmax"})

InitMinMax == InitAtomic(MinMaxRows, FloatWords) /\ DriverIdle /\ IrIdle

NextMinMax == \E t \in Threads : MinMaxEntry(t) \/ MinMaxAttempt(t)

SpecMinMax == InitMinMax /\ [][NextMinMax]_vars

(***************************************************************************)
(* Properties of the binary template (SpecBinary)                          *)
(***************************************************************************)
Returned(t) == pc[t] = "ret"

\* the operation a row's function is named after, applied to contents w
NamedOp(i, w, v) == IF replacements[i].FUNC = "add" THEN FAdd(w, v) ELSE FSub(w, v)

\* the contents after applying the operands of the threads of h, in order, to w
RECURSIVE Applied(_, _)
Applied(w, h) ==
  IF h = << >> THEN w
  ELSE Applied(NamedOp(fn[Head(h)], w, val[Head(h)]), Tail(h))

Count(h, t) == Cardinality({i \in 1..Len(h) : h[i] = t})

\* C1: no update is lost or applied twice.  At every moment the word holds
\* the initial contents with the operands of exactly the invocations whose
\* CAS has succeeded applied once each, in the order of their CASes; an
\* invocation has returned iff its CAS has succeeded.  When all have
\* returned, every operand has been applied exactly once.
C1_NoLostUpdate ==
  /\ mem = Applied(mem0, hist)
  /\ \A t \in Threads : Count(hist, t) = IF Returned(t) THEN 1 ELSE 0

\* all invocations returned, one of them after a failed attempt
C1_Witness ==
  /\ \A t \in Threads : Returned(t)
  /\ \E t \in Threads : result[t] # old2[t]
  /\ mem # mem0

\* C2: a binary add/sub invocation returns the contents the word held
\* immediately before its own successful CAS.
C2_ReturnsPreUpdate ==
  \A t \in Threads : Returned(t) => result[t] = pre[t]

\* an invocation returned a value other than the one its first attempt saw
C2_Witness ==
  \E t \in Threads : Returned(t) /\ result[t] = pre[t] /\ result[t] # old2[t]

(***************************************************************************)
(* Properties of the inc and dec templates (SpecIncDec)                    *)
(***************************************************************************)
IsInc(t) == replacements[fn[t]].FUNC = "inc"
IsDec(t) == replacements[fn[t]].FUNC = "dec"

\* thread t's cmpxchg succeeds in this step
Succeeds(t) == pc[t] = "attempt" /\ pc'[t] = "ret"

\* a successful inc CAS: c -> c+1 when c < bound, else 0; c is returned
C5_IncStep ==
  \A t \in Threads :
    IsInc(t) /\ Succeeds(t) =>
      /\ mem' = IF mem < val[t] THEN mem + 1 ELSE 0
      /\ result'[t] = mem

\* inc invocations with one bound b keep a word that starts in 0..b in 0..b
C5_IncRange ==
  \A b \in IntWords :
    (mem0 <= b /\ \A t \in Threads : IsInc(t) /\ val[t] = b) => mem \in 0..b

\* C5: the successful CAS of an inc invocation replaces the contents c by
\* c+1 when c < bound and by 0 otherwise and the invocation returns c (every
\* step satisfies C5_IncStep); when all invocations are inc with one bound
\* and the word starts in 0..bound, the word stays in 0..bound (C5_IncRange).
C5_Inc == [][C5_IncStep]_vars /\ []C5_IncRange

\* two inc invocations with one bound returned: one incremented, one reset to 0
C5_Witness ==
  \E t, u \in Threads :
    /\ IsInc(t) /\ IsInc(u) /\ val[t] = val[u] /\ mem0 <= val[t]
    /\ Returned(t) /\ Returned(u)
    /\ pre[t] < val[t] /\ pre[u] = val[u] /\ mem = 0

\* a successful dec CAS: c -> v if c = 0 or c > v, else c-1; c is returned
C6_DecStep ==
  \A t \in Threads :
    IsDec(t) /\ Succeeds(t) =>
      /\ mem' = IF mem = 0 \/ mem > val[t] THEN val[t] ELSE mem - 1
      /\ result'[t] = mem

\* C6: for every contents c and bound v of the word, the successful CAS of
\* a dec invocation stores v if c = 0 or c > v, else c-1, and the invocation
\* returns c (every step satisfies C6_DecStep).
C6_Dec == [][C6_DecStep]_vars

\* a dec of contents 0 with the largest bound: c-1 wraps around to the bound
C6_Witness ==
  \E t \in Threads :
    IsDec(t) /\ Returned(t) /\ pre[t] = 0 /\ val[t] = Mod - 1 /\ result[t] = 0

(***************************************************************************)
(* Properties of the min/max template (SpecMinMax)                         *)
(***************************************************************************)
IsPlain(t) == replacements[fn[t]].NAN = ""
IsNanAware(t) == replacements[fn[t]].NAN = "nan"
Func(t) == replacements[fn[t]].FUNC
Loaded(t) == pc[t] # "entry"
Wrote(t) == pre[t] # Undef
Attempted(t) == cas[t] # Undef

\* C3: a min/max invocation that updated the word returns the contents the
\* word held immediately before its update.
C3_ReturnsPreUpdate ==
  \A t \in Threads : (Returned(t) /\ Wrote(t)) => result[t] = pre[t]

RECURSIVE MaxOf(_)
MaxOf(S) ==
  LET x == CHOOSE y \in S : TRUE IN
  IF S = {x} THEN x
  ELSE LET m == MaxOf(S \ {x}) IN IF x > m THEN x ELSE m

RECURSIVE MinOf(_)
MinOf(S) ==
  LET x == CHOOSE y \in S : TRUE IN
  IF S = {x} THEN x
  ELSE LET m == MinOf(S \ {x}) IN IF x < m THEN x ELSE m

InputValues == {FVal(mem0)} \cup {FVal(val[t]) : t \in Threads}
NoNaNInput == ~IsNaN(mem0) /\ \A t \in Threads : ~IsNaN(val[t])

\* C4: when all invocations are plain max (resp. min), no input is a NaN
\* and all have returned, the word holds the maximum (resp. minimum) of
\* the initial contents and all operands.
C4_PlainFinal ==
  ((\A t \in Threads : IsPlain(t) /\ Returned(t)) /\ NoNaNInput) =>
    /\ (\A t \in Threads : Func(t) = "max") => FVal(mem) = MaxOf(InputValues)
    /\ (\A t \in Threads : Func(t) = "min") => FVal(mem) = MinOf(InputValues)

\* plain max invocations all returned, one replaced the word after a failed CAS
C4_Witness ==
  /\ \A t \in Threads : IsPlain(t) /\ Func(t) = "max" /\ Returned(t)
  /\ NoNaNInput
  /\ \E t \in Threads : Wrote(t) /\ pre[t] # old2[t]
  /\ FVal(mem) = MaxOf(InputValues)

\* C7: a plain min/max invocation whose operand, or whose initial load of
\* the word, is a NaN makes no CAS attempt and does not change the word.
C7_PlainNaNNoCas ==
  \A t \in Threads :
    (IsPlain(t) /\ Loaded(t) /\ (IsNaN(val[t]) \/ IsNaN(old2[t]))) =>
      (Returned(t) /\ ~Attempted(t) /\ ~Wrote(t))

\* a plain invocation with a number as operand found a NaN in the word
C7_Witness ==
  \E t \in Threads :
    IsPlain(t) /\ Returned(t) /\ IsNaN(old2[t]) /\ ~IsNaN(val[t]) /\ IsNaN(mem)

\* C8: nanmin/nanmax treat NaN as a missing value.  With a NaN operand the
\* invocation makes no CAS attempt and does not change the word; with a NaN
\* loaded from the word and a number as operand it attempts the CAS, and
\* the word holds the operand when it returns unless another invocation
\* wrote the word.
C8_NanAware ==
  \A t \in Threads :
    (IsNanAware(t) /\ Loaded(t)) =>
      /\ IsNaN(val[t]) => (Returned(t) /\ ~Attempted(t) /\ ~Wrote(t))
      /\ (~IsNaN(val[t]) /\ IsNaN(old2[t])) =>
           /\ ~early[t]
           /\ Returned(t) =>
                /\ Attempted(t)
                /\ (\A u \in Threads \ {t} : ~Wrote(u)) =>
                     (mem = val[t] /\ IsNaN(pre[t]))

\* one invocation replaced a NaN by its operand, another had a NaN operand
C8_Witness ==
  \E t, u \in Threads :
    /\ IsNanAware(t) /\ Returned(t) /\ IsNaN(old2[t]) /\ ~IsNaN(val[t])
    /\ mem = val[t] /\ IsNaN(pre[t])
    /\ IsNanAware(u) /\ Returned(u) /\ IsNaN(val[u]) /\ ~Attempted(u)

\* C9 as stated: the reference value of the early-exit test is the pointer
\* contents for nanmin/nanmax and the operand itself for plain min/max.
C9_AsStated ==
  \A t \in Threads :
    Loaded(t) =>
      early[t] = FUno(val[t], IF IsNanAware(t) THEN old2[t] ELSE val[t])

\* C9 (amended): the reference value of the early-exit test is the pointer
\* contents for plain min/max and the operand itself for nanmin/nanmax.
C9_EarlyReference ==
  \A t \in Threads :
    Loaded(t) =>
      early[t] = FUno(val[t], IF IsNanAware(t) THEN val[t] ELSE old2[t])

\* a NaN in the word and a number as operand: plain exits early, NaN-aware does not
C9_Witness ==
  \E t, u \in Threads :
    /\ IsPlain(t) /\ Loaded(t) /\ IsNaN(old2[t]) /\ ~IsNaN(val[t]) /\ early[t]
    /\ IsNanAware(u) /\ Loaded(u) /\ IsNaN(old2[u]) /\ ~IsNaN(val[u]) /\ ~early[u]

RESULT_CODE_NAMES ==
  << "NVVM_SUCCESS",
     "NVVM_ERROR_OUT_OF_MEMORY",
     "NVVM_ERROR_PROGRAM_CREATION_FAILURE",
     "NVVM_ERROR_IR_VERSION_MISMATCH",
     "NVVM_ERROR_INVALID_INPUT",
     "NVVM_ERROR_INVALID_PROGRAM",
     "NVVM_ERROR_INVALID_IR",
     "NVVM_ERROR_INVALID_OPTION",
     "NVVM_ERROR_NO_MODULE_IN_PROGRAM",
     "NVVM_ERROR_COMPILATION" >>

\* the nvvmResult values
Codes == 0..(Len(RESULT_CODE_NAMES) - 1)

_PROTOTYPES ==
  << "nvvmVersion",
     "nvvmCreateProgram",
     "nvvmDestroyProgram",
     "nvvmAddModuleToProgram",
     "nvvmLazyAddModuleToProgram",
     "nvvmCompileProgram",
     "nvvmGetCompiledResultSize",
     "nvvmGetCompiledResult",
     "nvvmGetProgramLogSize",
     "nvvmGetProgramLog",
     "nvvmIRVersion",
     "nvvmVerifyProgram" >>

ProtoNames == {_PROTOTYPES[i] : i \in 1..Len(_PROTOTYPES)}

\* sample answers of nvvmIRVersion: majorIR, minorIR, majorDbg, minorDbg
IRVersions == {<< 0, 9, 3, 0 >>, << 1, 7, 3, 0 >>, << 1, 8, 3, 1 >>, << 2, 0, 3, 1 >>}

_datalayout_original ==
  "e-p:64:64:64-i1:8:8-i8:8:8-i16:16:16-i32:32:32-"
    \o "i64:64:64-f32:32:32-f64:64:64-v16:16:16-v32:32:32-"
    \o "v64:64:64-v128:128:128-n16:32:64"

_datalayout_i128 ==
  "e-p:64:64:64-i1:8:8-i8:8:8-i16:16:16-i32:32:32-i64:64:64-"
    \o "i128:128:128-f32:32:32-f64:64:64-v16:16:16-v32:32:32-"
    \o "v64:64:64-v128:128:128-n16:32:64"

\* the test on the minor version alone
tuple_lt_minor(a, b) == a[2] < b[2]

\* a < b for two pairs of ints: Python compares tuples lexicographically
tuple_lt(a, b) == a[1] < b[1] \/ (a[1] = b[1] /\ a[2] < b[2])

\* the data_layout property of NVVM object obj, whose __init__ has stored
\* the IR version
data_layout(obj) ==
  IF tuple_lt(<< obj.ir[1], obj.ir[2] >>, << 1, 8 >>)
    THEN _datalayout_original
    ELSE _datalayout_i128

\* the libraries a run may be linked against
Libs == [missing : {""} \cup ProtoNames, irErr : Codes, irVer : IRVersions]

\* check_error with a generic name for every failure
check_error_generic(error, msg, exit) ==
  IF error = 0 THEN NoExc
  ELSE LET e == [type |-> "NvvmError", msg |-> msg, name |-> "NVVM_ERROR"]
       IN IF exit THEN [type |-> "SystemExit", status |-> 1, printed |-> e] ELSE e

\* check_error: the exception leaving it (NoExc: it returns).  With exit it
\* prints the NvvmError and calls sys.exit(1), which raises SystemExit.
check_error(error, msg, exit) ==
  IF error = 0 THEN NoExc
  ELSE LET e == [type |-> "NvvmError", msg |-> msg, name |-> RESULT_CODE_NAMES[error + 1]]
       IN IF exit THEN [type |-> "SystemExit", status |-> 1, printed |-> e] ELSE e

\* the names setattr has stored when the loop over _PROTOTYPES.items() ends:
\* all of them, or those before the first one getattr(inst.driver, name) lacks
Populated(missing) ==
  {_PROTOTYPES[i] : i \in {j \in 1..Len(_PROTOTYPES) :
                             \A k \in 1..j : _PROTOTYPES[k] # missing}}

\* Lock.acquire without mutual exclusion
acquire_unlocked(l) == TRUE

\* _nvvm_lock can be acquired
acquire(l) == l = 0

\* with _nvvm_lock:
NvvmAcquire(t) ==
  /\ npc[t] = "new"
  /\ acquire(nvvm_lock)
  /\ nvvm_lock' = t
  /\ npc' = [npc EXCEPT ![t] = "check"]
  /\ UNCHANGED << lib, NVVM_INSTANCE, objs, inst, self, exc, nLoad, nPopulate, irWrites >>

\* if cls.__INSTANCE is None: cls.__INSTANCE = inst = object.__new__(cls)
NvvmNew(t) ==
  /\ npc[t] = "check"
  /\ IF NVVM_INSTANCE = 0
       THEN /\ objs' = Append(objs, [driver |-> FALSE, table |-> {}, ir |-> << >>])
            /\ NVVM_INSTANCE' = Len(objs) + 1
            /\ inst' = [inst EXCEPT ![t] = Len(objs) + 1]
            /\ npc' = [npc EXCEPT ![t] = "load"]
       ELSE /\ npc' = [npc EXCEPT ![t] = "release"]
            /\ UNCHANGED << objs, NVVM_INSTANCE, inst >>
  /\ UNCHANGED << lib, nvvm_lock, self, exc, nLoad, nPopulate, irWrites >>

\* inst.driver = open_cudalib("nvvm"); on OSError the reference is reset and
\* NvvmSupportError leaves the with block, which releases the lock
NvvmLoad(t) ==
  /\ npc[t] = "load"
  /\ \E found \in BOOLEAN :
       IF found
         THEN /\ objs' = [objs EXCEPT ![inst[t]].driver = TRUE]
              /\ nLoad' = nLoad + 1
              /\ npc' = [npc EXCEPT ![t] = "populate"]
              /\ UNCHANGED << NVVM_INSTANCE, nvvm_lock, exc >>
         ELSE /\ NVVM_INSTANCE' = 0
              /\ nvvm_lock' = 0
              /\ exc' = [exc EXCEPT ![t] = [type |-> "NvvmSupportError"]]
              /\ npc' = [npc EXCEPT ![t] = "raised"]
              /\ UNCHANGED << objs, nLoad >>
  /\ UNCHANGED << lib, inst, self, nPopulate, irWrites >>

\* for name, proto in inst._PROTOTYPES.items(): getattr, setattr.  A missing
\* function raises AttributeError out of the with block.
NvvmPopulate(t) ==
  /\ npc[t] = "populate"
  /\ objs' = [objs EXCEPT ![inst[t]].table = Populated(lib.missing)]
  /\ nPopulate' = nPopulate + 1
  /\ IF lib.missing = ""
       THEN /\ npc' = [npc EXCEPT ![t] = "release"]
            /\ UNCHANGED << nvvm_lock, exc >>
       ELSE /\ nvvm_lock' = 0
            /\ exc' = [exc EXCEPT ![t] = [type |-> "AttributeError", name |-> lib.missing]]
            /\ npc' = [npc EXCEPT ![t] = "raised"]
  /\ UNCHANGED << lib, NVVM_INSTANCE, inst, self, nLoad, irWrites >>

\* the end of the with block
NvvmRelease(t) ==
  /\ npc[t] = "release"
  /\ nvvm_lock' = 0
  /\ npc' = [npc EXCEPT ![t] = "return"]
  /\ UNCHANGED << lib, NVVM_INSTANCE, objs, inst, self, exc, nLoad, nPopulate, irWrites >>

\* return cls.__INSTANCE, read after the lock was released
NvvmReturn(t) ==
  /\ npc[t] = "return"
  /\ self' = [self EXCEPT ![t] = NVVM_INSTANCE]
  /\ npc' = [npc EXCEPT ![t] = IF NVVM_INSTANCE = 0 THEN "done" ELSE "init"]
  /\ UNCHANGED << lib, nvvm_lock, NVVM_INSTANCE, objs, inst, exc, nLoad, nPopulate, irWrites >>

\* __init__: ir_versions = self.get_ir_version(), then the four assignments
NvvmInit(t) ==
  /\ npc[t] = "init"
  /\ LET e == check_error(lib.irErr, "Failed to get IR version.", FALSE) IN
     IF "nvvmIRVersion" \notin objs[self[t]].table
       THEN /\ exc' = [exc EXCEPT ![t] = [type |-> "AttributeError", name |-> "nvvmIRVersion"]]
            /\ npc' = [npc EXCEPT ![t] = "raised"]
            /\ UNCHANGED << objs, irWrites >>
       ELSE IF e # NoExc
         THEN /\ exc' = [exc EXCEPT ![t] = e]
              /\ npc' = [npc EXCEPT ![t] = "raised"]
              /\ UNCHANGED << objs, irWrites >>
         ELSE /\ objs' = [objs EXCEPT ![self[t]].ir = lib.irVer]
              /\ irWrites' = irWrites + 1
              /\ npc' = [npc EXCEPT ![t] = "done"]
              /\ exc' = exc
  /\ UNCHANGED << lib, nvvm_lock, NVVM_INSTANCE, inst, self, nLoad, nPopulate >>

\* one step of thread t's NVVM() call
NvvmStep(t) ==
  \/ NvvmAcquire(t)
  \/ NvvmNew(t)
  \/ NvvmLoad(t)
  \/ NvvmPopulate(t)
  \/ NvvmRelease(t)
  \/ NvvmReturn(t)
  \/ NvvmInit(t)

\* the host side runs no invocation of the atomics
AtomIdle ==
  /\ mem = 0
  /\ fn = [t \in Threads |-> 1]
  /\ val = [t \in Threads |-> 0]
  /\ pc = [t \in Threads |-> "none"]
  /\ old2 = [t \in Threads |-> Undef]
  /\ old = [t \in Threads |-> Undef]
  /\ cas = [t \in Threads |-> Undef]
  /\ early = [t \in Threads |-> FALSE]
  /\ result = [t \in Threads |-> Undef]
  /\ mem0 = 0
  /\ hist = << >>
  /\ pre = [t \in Threads |-> Undef]
  /\ changed = [t \in Threads |-> FALSE]

\* every thread is about to make its first NVVM() call
InitNVVM ==
  /\ lib \in Libs
  /\ NvvmStart("new")
  /\ libdevice_file = None
  /\ CuStart
  /\ AtomIdle
  /\ IrIdle

NextNVVM == \E t \in Threads : NvvmStep(t) /\ UNCHANGED << atomVars, cuVars, irVars >>

SpecNVVM == InitNVVM /\ [][NextNVVM]_vars

(***************************************************************************)
(* Properties of the NVVM singleton (SpecNVVM)                             *)
(***************************************************************************)
\* thread t's NVVM() call has returned an instance to its caller
NvvmReturned(t) == npc[t] = "done" /\ self[t] # 0

\* __new__ has handed thread t an instance (its __init__ may still be running)
Received(t) == npc[t] \in {"init", "done"} \/ (npc[t] = "raised" /\ self[t] # 0)

\* C17: when the threads make their first NVVM() calls concurrently, under
\* every interleaving the native library is loaded at most once and the loop
\* that populates the function table runs at most once, all callers that
\* receive an instance receive the same one, and whenever a caller has
\* received an instance the library was loaded exactly once, into that
\* instance, and the table was populated exactly once.
C17_SingleCreation ==
  /\ nLoad <= 1
  /\ nPopulate <= 1
  /\ \A t, u \in Threads :
       (Received(t) /\ Received(u)) => self[t] = self[u]
  /\ \A t \in Threads :
       Received(t) => /\ self[t] # 0
                      /\ nLoad = 1
                      /\ nPopulate = 1
                      /\ objs[self[t]].driver

\* every thread's call has returned, with a library that lacks nothing
C17_Witness ==
  /\ \A t \in Threads : NvvmReturned(t)
  /\ lib.missing = ""

\* C18: once some NVVM() call has returned, no step writes a field of the
\* instance: the objects stay as they are and __init__ stores nothing.
C18_Immutable ==
  [][(\E t \in Threads : NvvmReturned(t)) => (objs' = objs /\ irWrites' = irWrites)]_vars

\* the NVVM objects whose __init__ has stored the IR version
Versioned == {i \in 1..Len(objs) : objs[i].ir # << >>}

\* C28: data_layout is the original layout string when (major, minor) of the
\* queried IR version is below (1, 8) in lexicographic order (major below 1,
\* or major 1 and minor below 8), as for (1, 7), and the layout string with
\* i128 otherwise, as for (1, 8) and for (2, 0); the two strings differ.
C28_DataLayout ==
  /\ \A i \in Versioned :
       LET major == objs[i].ir[1]
           minor == objs[i].ir[2]
           layout == data_layout(objs[i])
       IN /\ (major < 1 \/ (major = 1 /\ minor < 8)) => layout = _datalayout_original
          /\ ~(major < 1 \/ (major = 1 /\ minor < 8)) => layout = _datalayout_i128
          /\ (major = 1 /\ minor = 7) => layout = _datalayout_original
          /\ (major = 1 /\ minor = 8) => layout = _datalayout_i128
          /\ (major = 2 /\ minor = 0) => layout = _datalayout_i128
  /\ _datalayout_original # _datalayout_i128

\* an NVVM object holds IR version (2, 0) and selects the i128 layout
C28_Witness ==
  \E i \in Versioned :
    /\ objs[i].ir[1] = 2
    /\ objs[i].ir[2] = 0
    /\ data_layout(objs[i]) = _datalayout_i128

\* thread t's attempt to create the singleton fails in this step: the library
\* is not found, or a function of _PROTOTYPES is missing from it
CreationFails(t) == npc[t] \in {"load", "populate"} /\ npc'[t] = "raised"

\* instance i holds the library and the whole function table
Complete(i) == objs[i].driver /\ objs[i].table = ProtoNames

\* a failed creation resets the singleton reference
ResetOnFailure == \A t \in Threads : CreationFails(t) => NVVM_INSTANCE' = 0

\* no NVVM() call hands out an instance with an incomplete function table,
\* and outside the locked section the reference is None or a complete instance
NoPartialInstance ==
  /\ \A t \in Threads : Received(t) => Complete(self[t])
  /\ (nvvm_lock = 0 /\ NVVM_INSTANCE # 0) => Complete(NVVM_INSTANCE)

\* C35: a failed creation of the NVVM singleton leaves no instance behind:
\* whether the library fails to load or a required function is missing while
\* the function table is populated, the singleton reference is reset, so no
\* later NVVM() call returns an instance with an incomplete function table
\* and the next call attempts creation again.
C35_FailedCreationReset == [][ResetOnFailure]_vars /\ []NoPartialInstance

(***************************************************************************)
(* Part 3: compile_ir.  Text that the code takes apart character by        *)
(* character (option names) is a sequence of one-character strings; other  *)
(* text is a string.  A dict is the sequence of its items in insertion     *)
(* order, keys distinct.  Option values are tagged with their Python type. *)
(***************************************************************************)
\* "".join(cs)
RECURSIVE Join(_)
Join(cs) == IF cs = << >> THEN "" ELSE Head(cs) \o Join(Tail(cs))

\* str.replace(a, b) for one-character a and b
replace(cs, a, b) == [i \in 1..Len(cs) |-> IF cs[i] = a THEN b ELSE cs[i]]

\* str.encode("utf-8") of ASCII text: the same code points, as bytes
encode(s) == [bytes |-> s]

Digits == << "0", "1", "2", "3", "4", "5", "6", "7", "8", "9" >>

\* str(n) for an int n
RECURSIVE str_nat(_)
str_nat(n) == IF n < 10 THEN Digits[n + 1] ELSE str_nat(n \div 10) \o Digits[(n % 10) + 1]

str_int(n) == IF n < 0 THEN "-" \o str_nat(0 - n) ELSE str_nat(n)

\* format(v) as an f-string renders it
format(v) ==
  CASE v.t = "None" -> "None"
    [] v.t = "bool" -> (IF v.v THEN "True" ELSE "False")
    [] v.t = "int" -> str_int(v.v)
    [] v.t = "str" -> v.v

\* int(v) for a bool v
int(v) == [t |-> "int", v |-> IF v.v THEN 1 ELSE 0]

PyNone == [t |-> "None"]
PyBool(b) == [t |-> "bool", v |-> b]
PyInt(n) == [t |-> "int", v |-> n]
PyStr(x) == [t |-> "str", v |-> x]

\* stringify_option without the isinstance(v, bool) branch
stringify_option_bool_text(k, v) ==
  LET k2 == Join(replace(k, "_", "-")) IN
  IF v.t = "None" THEN encode("-" \o k2)
  ELSE encode("-" \o k2 \o "=" \o format(v))

\* CompilationUnit.__init__.stringify_option
stringify_option(k, v) ==
  LET k2 == Join(replace(k, "_", "-")) IN
  IF v.t = "None" THEN encode("-" \o k2)
  ELSE LET v2 == IF v.t = "bool" THEN int(v) ELSE v IN
       encode("-" \o k2 \o "=" \o format(v2))

\* the tokens in reverse order of the entries
stringify_options_reversed(d) ==
  [i \in 1..Len(d) |-> stringify_option(d[Len(d) + 1 - i].k, d[Len(d) + 1 - i].v)]

\* [stringify_option(k, v) for k, v in options.items()]
stringify_options(d) == [i \in 1..Len(d) |-> stringify_option(d[i].k, d[i].v)]

\* dict operations on the item sequence
Keys(d) == {d[i].k : i \in 1..Len(d)}

dict_get(d, k, default) ==
  IF k \in Keys(d) THEN d[CHOOSE i \in 1..Len(d) : d[i].k = k].v ELSE default

dict_pop(d, k) == SelectSeq(d, LAMBDA e : e.k # k)

\* d[k] = v as if a dict kept one entry per assignment
dict_set_append(d, k, v) == Append(d, [k |-> k, v |-> v])

\* d[k] = v: an existing key keeps its position, a new key goes last
dict_set(d, k, v) ==
  IF k \in Keys(d) THEN [i \in 1..Len(d) |-> IF d[i].k = k THEN [k |-> k, v |-> v] ELSE d[i]]
  ELSE Append(d, [k |-> k, v |-> v])

\* d.update(u)
RECURSIVE dict_update(_, _)
dict_update(d, u) ==
  IF u = << >> THEN d
  ELSE dict_update(dict_set(d, Head(u).k, Head(u).v), Tail(u))

\* option names
k_fastmath == << "f", "a", "s", "t", "m", "a", "t", "h" >>
k_ftz == << "f", "t", "z" >>
k_fma == << "f", "m", "a" >>
k_prec_div == << "p", "r", "e", "c", "_", "d", "i", "v" >>
k_prec_sqrt == << "p", "r", "e", "c", "_", "s", "q", "r", "t" >>
k_opt == << "o", "p", "t" >>
k_arch == << "a", "r", "c", "h" >>
k_g == << "g" >>
k_gen_lto == << "g", "e", "n", "_", "l", "t", "o" >>

Item(k, v) == [k |-> k, v |-> v]

\* bool(v)
truthy(v) ==
  CASE v.t = "None" -> FALSE
    [] v.t = "bool" -> v.v
    [] v.t = "int" -> v.v # 0
    [] v.t = "str" -> v.v # ""

\* compile_ir reading the flag with options.get("fastmath", False): the key
\* stays in the dict
fastmath_options_get(options) ==
  LET fastmath == dict_get(options, k_fastmath, PyBool(FALSE))
  IN IF truthy(fastmath)
       THEN dict_update(options, << Item(k_ftz, PyBool(TRUE)), Item(k_fma, PyBool(TRUE)),
                                   Item(k_prec_div, PyBool(FALSE)),
                                   Item(k_prec_sqrt, PyBool(FALSE)) >>)
       ELSE options

\* the options of compile_ir after options.pop("fastmath", False) and, when
\* the popped value is true, options.update({...})
fastmath_options(options) ==
  LET fastmath == dict_get(options, k_fastmath, PyBool(FALSE))
      rest == dict_pop(options, k_fastmath)
  IN IF truthy(fastmath)
       THEN dict_update(rest, << Item(k_ftz, PyBool(TRUE)), Item(k_fma, PyBool(TRUE)),
                                Item(k_prec_div, PyBool(FALSE)),
                                Item(k_prec_sqrt, PyBool(FALSE)) >>)
       ELSE rest

(***************************************************************************)
(* IR text is a sequence of lines, a line being one of                     *)
(*   declare   the declaration of row `row` of replacements (its decl)     *)
(*   define    the function synthesized for that row (its fn)              *)
(*   attributes  "attributes #<id> = { <body> }", body a token sequence    *)
(*   text      any other line, as its token sequence                       *)
(***************************************************************************)
DeclLine(i) == [k |-> "declare", row |-> i]
DefnLine(i) == [k |-> "define", row |-> i]
AttrLine(n, body) == [k |-> "attributes", id |-> n, body |-> body]
TextLine(toks) == [k |-> "text", toks |-> toks]

\* the sample tokens that consist of word characters only (\w+)
WordTokens ==
  {"nounwind", "willreturn", "readnone", "immarg", "immimmargarg", "call", "ret", "void"}

\* the tokens llvm_replace removes: willreturn from attribute groups and
\* immarg everywhere
Listed == {"willreturn", "immarg"}

\* tok.replace("immarg", ""): str.replace removes the non-overlapping
\* occurrences found in one left-to-right scan of the original text
remove_immarg(tok) ==
  CASE tok = "immarg" -> ""
    [] tok = "immimmargarg" -> "immarg"
    [] OTHER -> tok

\* the tokens of a line after the replacement: a token that became empty
\* leaves only the white space around it
remove_immarg_toks(toks) ==
  SelectSeq([j \in 1..Len(toks) |-> remove_immarg(toks[j])], LAMBDA a : a # "")

\* llvmir.replace(decl, fn) for every (decl, fn) of replacements
replace_decls(ir) ==
  [i \in 1..Len(ir) |->
     IF ir[i].k = "declare" /\ ir[i].row \in 1..Len(replacements)
       THEN DefnLine(ir[i].row) ELSE ir[i]]

\* llvmir.replace("immarg", "")
replace_immarg(ir) ==
  [i \in 1..Len(ir) |->
     CASE ir[i].k = "text" ->
            TextLine(remove_immarg_toks(ir[i].toks))
       [] ir[i].k = "attributes" ->
            AttrLine(ir[i].id, remove_immarg_toks(ir[i].body))
       [] OTHER -> ir[i]]

\* re_attributes_def.match(line) is not None: the body is one or more
\* characters of [\w\s]
re_attributes_def(line) ==
  /\ line.body # << >>
  /\ \A j \in 1..Len(line.body) : line.body[j] \in WordTokens

\* llvm150_to_70_ir: m.group(1) of a line without a match raises
llvm150_to_70_ir(ir) ==
  [raised |-> \E i \in 1..Len(ir) : ir[i].k = "attributes" /\ ~re_attributes_def(ir[i]),
   ir |-> [i \in 1..Len(ir) |->
             IF ir[i].k = "attributes"
               THEN AttrLine(ir[i].id, SelectSeq(ir[i].body, LAMBDA a : a # "willreturn"))
               ELSE ir[i]]]

\* the module handed on as it came
llvm_replace_skipped(ir) == [raised |-> FALSE, ir |-> ir]

llvm_replace(ir) == llvm150_to_70_ir(replace_immarg(replace_decls(ir)))

\* sample modules
mod_atomic ==
  << DeclLine(1), TextLine(<< "call", "void", "immarg" >>), TextLine(<< "ret", "void" >>) >>

mod_attrs ==
  << TextLine(<< "ret", "void" >>), AttrLine(0, << "nounwind", "willreturn" >>) >>

mod_strattr == << AttrLine(0, << "\"no-nans-fp-math\"=\"true\"" >>) >>

\* sample calls compile_ir(llvmir, **options): llvmir one str or a list of str
Call(ty, v, options) == [llvmir |-> [ty |-> ty, v |-> v], options |-> options]

CallSamples ==
  << Call("str", mod_atomic, << >>),
    Call("list", << mod_atomic, mod_attrs >>, << Item(k_fastmath, PyBool(TRUE)) >>),
    Call("list", << mod_attrs, mod_atomic >>,
         << Item(k_opt, PyInt(3)), Item(k_fastmath, PyBool(FALSE)) >>),
    Call("list", << mod_strattr >>,
         << Item(k_g, PyNone), Item(k_arch, PyStr("compute_75")) >>),
    Call("str", mod_attrs,
         << Item(k_gen_lto, PyNone), Item(k_prec_sqrt, PyBool(TRUE)),
            Item(k_opt, PyInt(0 - 12)) >>),
    Call("list", << mod_atomic >>,
         << Item(k_ftz, PyBool(FALSE)), Item(k_opt, PyInt(10)),
            Item(k_prec_div, PyBool(TRUE)), Item(k_fastmath, PyBool(TRUE)) >>) >>

\* the results the native calls of a compile_ir run are drawn from: success,
\* NVVM_ERROR_INVALID_PROGRAM and NVVM_ERROR_COMPILATION
NativeResults == {0, 5, 9}

\* sample diagnostic logs and compiled results of the native compiler
Logs == {"", "warning: w"}
Results == {"PTX", "LTOIR"}

\* what nvvmGetProgramLogSize reports: the length with the trailing NUL; an
\* empty log is reported as 1 or as 0
ReportedSizes(log) == IF log = "" THEN {0, 1} ELSE {Len(log) + 1}

\* open_libdevice(): the bytes of the file
open_libdevice(file) == "bitcode of " \o file

MISSING_LIBDEVICE_FILE_MSG == "Missing libdevice file."

\* how many compile_ir calls a run makes
MaxCompiles == 2

\* the thread that calls compile_ir
Caller == 1

(***************************************************************************)
(* compile_ir, run by one caller.  One action is one native call with the  *)
(* Python statements that follow it up to the next native call; NVVM()     *)
(* inside CompilationUnit.__init__ and __del__ runs the actions of Part 2. *)
(* An exception ends compile_ir (cpc = "del"): the CompilationUnit is a    *)
(* local of compile_ir, so its __del__ runs once compile_ir has ended.     *)
(***************************************************************************)
AttributeError(name) == [type |-> "AttributeError", name |-> name]

\* self.driver has the function: getattr(self.driver, f) succeeds
Has(f) == f \in objs[cu.driver].table

\* the next statement after a step that left exception e (NoExc: none)
Advance(e, nextcpc, nextlpc) ==
  /\ raised' = e
  /\ cpc' = IF e # NoExc THEN "del" ELSE nextcpc
  /\ lpc' = IF e # NoExc THEN "none" ELSE nextlpc

\* the message of the _try_error call that follows each native call
TryMsg(stage) ==
  CASE stage = "verify" -> "Failed to verify\n"
    [] stage = "compile" -> "Failed to compile\n"
    [] stage = "size" -> "Failed to get size of compiled result."
    [] stage = "result" -> "Failed to get compiled result."

\* compile() right after verify(), without the libdevice module
NextStage_no_libdevice(stage) ==
  CASE stage = "verify" -> "compile"
    [] stage = "compile" -> "size"
    [] stage = "size" -> "result"
    [] stage = "result" -> "getlog"

\* compile() fetching the result right after nvvmCompileProgram, without the
\* size query
NextStage_no_size(stage) ==
  CASE stage = "verify" -> "libdevice"
    [] stage = "compile" -> "result"
    [] stage = "size" -> "result"
    [] stage = "result" -> "getlog"

\* the statement after each _try_error call that returned
NextStage(stage) ==
  CASE stage = "verify" -> "libdevice"
    [] stage = "compile" -> "size"
    [] stage = "size" -> "result"
    [] stage = "result" -> "getlog"

NoBuf == [size |-> 0, buf |-> ""]

\* compile_ir up to cu = CompilationUnit(options), whose __init__ starts with
\* self.driver = NVVM()
CompileIr(ir, options) ==
  /\ cpc = "idle"
  /\ ncompile < MaxCompiles
  /\ ncompile' = ncompile + 1
  /\ llvmir' = IF ir.ty = "str" THEN << ir.v >> ELSE ir.v
  /\ kwopts' = fastmath_options(options)
  /\ args' = [llvmir |-> ir, options |-> options]
  /\ nadded' = 0
  /\ cu' = NoCU
  /\ prog' = NoProg
  /\ perr' = 0
  /\ logtxt' = ""
  /\ outbuf' = NoBuf
  /\ ld' = NoLD
  /\ ret' = NoRet
  /\ raised' = NoExc
  /\ warned' = << >>
  /\ unraisable' = << >>
  /\ calls' = << >>
  /\ cpc' = "cu_driver"
  /\ lpc' = "none"
  /\ npc' = [npc EXCEPT ![Caller] = "new"]
  /\ exc' = [exc EXCEPT ![Caller] = NoExc]
  /\ inst' = [inst EXCEPT ![Caller] = 0]
  /\ self' = [self EXCEPT ![Caller] = 0]
  /\ UNCHANGED << lib, nvvm_lock, NVVM_INSTANCE, objs, nLoad, nPopulate, irWrites,
                  libdevice_file, LibDevice_cache, exitcode, nOpen >>

\* the rest of CompilationUnit.__init__: nvvm_program(), nvvmCreateProgram,
\* check_error, the option list
CuCreate ==
  /\ cpc = "cu_driver"
  /\ npc[Caller] \in {"done", "raised"}
  /\ npc' = [npc EXCEPT ![Caller] = "idle"]
  /\ \E rc \in NativeResults :
       LET ok == npc[Caller] = "done"
           has == ok /\ "nvvmCreateProgram" \in objs[self[Caller]].table
           e == IF ~ok THEN exc[Caller]
                ELSE IF ~has THEN AttributeError("nvvmCreateProgram")
                ELSE check_error(rc, "Failed to create CU", FALSE)
           options == stringify_options(kwopts)
       IN /\ calls' = IF has THEN Append(calls, [f |-> "nvvmCreateProgram", rc |-> rc])
                      ELSE calls
          /\ cu' = IF ~ok THEN cu
                   ELSE IF e # NoExc
                     THEN [cu EXCEPT !.driver = self[Caller], !.handle = "null"]
                     ELSE [driver |-> self[Caller], handle |-> "live", options |-> options,
                           n_options |-> Len(options), log |-> None]
          /\ Advance(e, IF Len(llvmir) = 0 THEN "verify" ELSE "add",
                     IF Len(llvmir) = 0 THEN "call" ELSE "none")
  /\ UNCHANGED << args, lib, nvvm_lock, NVVM_INSTANCE, objs, inst, self, exc, nLoad,
                  nPopulate, irWrites, ncompile, llvmir, kwopts, nadded, prog,
                  perr, logtxt, outbuf, libdevice_file, LibDevice_cache, ld, ret,
                  warned, unraisable, exitcode, nOpen >>

\* one iteration of: for mod in llvmir: mod = llvm_replace(mod);
\* cu.add_module(mod.encode("utf8"))
CuAddModule ==
  /\ cpc = "add"
  /\ \E rc \in NativeResults :
       LET r == llvm_replace(llvmir[nadded + 1])
           has == Has("nvvmAddModuleToProgram")
           called == ~r.raised /\ has
           e == IF r.raised THEN AttributeError("group")
                ELSE IF ~has THEN AttributeError("nvvmAddModuleToProgram")
                ELSE check_error(rc, "Failed to add module", FALSE)
           last == nadded + 1 = Len(llvmir)
       IN /\ calls' = IF called
                        THEN Append(calls, [f |-> "nvvmAddModuleToProgram", rc |-> rc,
                                            buf |-> encode(r.ir)])
                        ELSE calls
          /\ prog' = IF called /\ rc = 0
                       THEN [prog EXCEPT !.modules =
                               Append(@, [lazy |-> FALSE, buf |-> encode(r.ir)])]
                       ELSE prog
          /\ nadded' = IF e = NoExc THEN nadded + 1 ELSE nadded
          /\ Advance(e, IF last THEN "verify" ELSE "add", IF last THEN "call" ELSE "none")
  /\ UNCHANGED << args, lib, nvvm_lock, NVVM_INSTANCE, objs, npc, inst, self, exc,
                  nLoad, nPopulate, irWrites, ncompile, llvmir, kwopts, cu, perr,
                  logtxt, outbuf, libdevice_file, LibDevice_cache, ld, ret,
                  warned, unraisable, exitcode, nOpen >>

\* verify: nvvmVerifyProgram(self._handle, self.n_options, self.option_ptrs)
CuVerify ==
  /\ cpc = "verify"
  /\ lpc = "call"
  /\ \E rc \in NativeResults, l \in Logs :
       LET has == Has("nvvmVerifyProgram")
           e == IF has THEN NoExc ELSE AttributeError("nvvmVerifyProgram")
       IN /\ calls' = IF has
                        THEN Append(calls, [f |-> "nvvmVerifyProgram", rc |-> rc,
                                            n |-> cu.n_options, opts |-> cu.options])
                        ELSE calls
          /\ prog' = IF has THEN [prog EXCEPT !.log = l] ELSE prog
          /\ perr' = IF has THEN rc ELSE perr
          /\ Advance(e, "verify", "logsize")
  /\ UNCHANGED << args, lib, nvvm_lock, NVVM_INSTANCE, objs, npc, inst, self, exc,
                  nLoad, nPopulate, irWrites, ncompile, llvmir, kwopts, nadded,
                  cu, logtxt, outbuf, libdevice_file, LibDevice_cache, ld, ret,
                  warned, unraisable, exitcode, nOpen >>

\* get_log: nvvmGetProgramLogSize, check_error, if reslen.value > 1
GetLogSize ==
  /\ lpc = "logsize"
  /\ \E rc \in NativeResults, reslen \in ReportedSizes(prog.log) :
       LET has == Has("nvvmGetProgramLogSize")
           e == IF ~has THEN AttributeError("nvvmGetProgramLogSize")
                ELSE check_error(rc, "Failed to get compilation log size.", FALSE)
       IN /\ calls' = IF has THEN Append(calls, [f |-> "nvvmGetProgramLogSize", rc |-> rc])
                      ELSE calls
          /\ logtxt' = IF e = NoExc /\ ~(reslen > 1) THEN "" ELSE logtxt
          /\ Advance(e, cpc, IF reslen > 1 THEN "logfetch" ELSE "check")
  /\ UNCHANGED << args, lib, nvvm_lock, NVVM_INSTANCE, objs, npc, inst, self, exc,
                  nLoad, nPopulate, irWrites, ncompile, llvmir, kwopts, nadded,
                  cu, prog, perr, outbuf, libdevice_file, LibDevice_cache, ld,
                  ret, warned, unraisable, exitcode, nOpen >>

\* get_log: nvvmGetProgramLog, check_error, return logbuf.value.decode("utf8")
GetLog ==
  /\ lpc = "logfetch"
  /\ \E rc \in NativeResults :
       LET has == Has("nvvmGetProgramLog")
           e == IF ~has THEN AttributeError("nvvmGetProgramLog")
                ELSE check_error(rc, "Failed to get compilation log.", FALSE)
       IN /\ calls' = IF has THEN Append(calls, [f |-> "nvvmGetProgramLog", rc |-> rc])
                      ELSE calls
          /\ logtxt' = IF e = NoExc THEN prog.log ELSE logtxt
          /\ Advance(e, cpc, "check")
  /\ UNCHANGED << args, lib, nvvm_lock, NVVM_INSTANCE, objs, npc, inst, self, exc,
                  nLoad, nPopulate, irWrites, ncompile, llvmir, kwopts, nadded,
                  cu, prog, perr, outbuf, libdevice_file, LibDevice_cache, ld,
                  ret, warned, unraisable, exitcode, nOpen >>

\* _try_error: self.driver.check_error(err, "%s\n%s" % (msg, self.get_log()))
\* once get_log() has returned
TryError ==
  /\ lpc = "check"
  /\ cpc \in {"verify", "compile", "size", "result"}
  /\ LET e == check_error(perr, TryMsg(cpc) \o "\n" \o logtxt, FALSE)
         next == NextStage(cpc)
     IN Advance(e, next,
                CASE next = "libdevice" -> "none"
                  [] next = "getlog" -> "logsize"
                  [] OTHER -> "call")
  /\ UNCHANGED << args, lib, nvvm_lock, NVVM_INSTANCE, objs, npc, inst, self, exc,
                  nLoad, nPopulate, irWrites, ncompile, llvmir, kwopts, nadded,
                  cu, prog, perr, logtxt, outbuf, libdevice_file, LibDevice_cache,
                  ld, ret, warned, unraisable, exitcode, calls, nOpen >>

\* libdevice = LibDevice(): self._cache_ reads the instance attribute, which
\* a new object lacks, and so the class attribute; self._cache_ = ... binds
\* the instance attribute
LibDeviceInit ==
  /\ cpc = "libdevice"
  /\ LET miss == LibDevice_cache = None /\ libdevice_file = None
         opens == LibDevice_cache = None /\ libdevice_file # None
         e == IF miss THEN [type |-> "RuntimeError", msg |-> MISSING_LIBDEVICE_FILE_MSG]
              ELSE NoExc
     IN /\ ld' = IF miss THEN ld
                 ELSE IF opens
                   THEN [cache |-> open_libdevice(libdevice_file),
                         bc |-> open_libdevice(libdevice_file)]
                   ELSE [ld EXCEPT !.bc = LibDevice_cache]
        /\ nOpen' = IF opens THEN nOpen + 1 ELSE nOpen
        /\ LibDevice_cache' = LibDevice_cache
        /\ Advance(e, "lazy_add", "none")
  /\ UNCHANGED << args, lib, nvvm_lock, NVVM_INSTANCE, objs, npc, inst, self, exc,
                  nLoad, nPopulate, irWrites, ncompile, llvmir, kwopts, nadded,
                  cu, prog, perr, logtxt, outbuf, libdevice_file, ret, warned,
                  unraisable, exitcode, calls >>

\* cu.lazy_add_module(libdevice.get())
CuLazyAdd ==
  /\ cpc = "lazy_add"
  /\ \E rc \in NativeResults :
       LET has == Has("nvvmLazyAddModuleToProgram")
           e == IF ~has THEN AttributeError("nvvmLazyAddModuleToProgram")
                ELSE check_error(rc, "Failed to add module", FALSE)
       IN /\ calls' = IF has
                        THEN Append(calls, [f |-> "nvvmLazyAddModuleToProgram", rc |-> rc,
                                            buf |-> ld.bc])
                        ELSE calls
          /\ prog' = IF has /\ rc = 0
                       THEN [prog EXCEPT !.modules = Append(@, [lazy |-> TRUE, buf |-> ld.bc])]
                       ELSE prog
          /\ Advance(e, "compile", "call")
  /\ UNCHANGED << args, lib, nvvm_lock, NVVM_INSTANCE, objs, npc, inst, self, exc,
                  nLoad, nPopulate, irWrites, ncompile, llvmir, kwopts, nadded,
                  cu, perr, logtxt, outbuf, libdevice_file, LibDevice_cache, ld,
                  ret, warned, unraisable, exitcode, nOpen >>

\* compile: nvvmCompileProgram(self._handle, self.n_options, self.option_ptrs)
CuCompile ==
  /\ cpc = "compile"
  /\ lpc = "call"
  /\ \E rc \in NativeResults, l \in Logs, res \in Results :
       LET has == Has("nvvmCompileProgram")
           e == IF has THEN NoExc ELSE AttributeError("nvvmCompileProgram")
       IN /\ calls' = IF has
                        THEN Append(calls, [f |-> "nvvmCompileProgram", rc |-> rc,
                                            n |-> cu.n_options, opts |-> cu.options])
                        ELSE calls
          /\ prog' = IF has
                       THEN [prog EXCEPT !.log = l, !.result = IF rc = 0 THEN res ELSE ""]
                       ELSE prog
          /\ perr' = IF has THEN rc ELSE perr
          /\ Advance(e, "compile", "logsize")
  /\ UNCHANGED << args, lib, nvvm_lock, NVVM_INSTANCE, objs, npc, inst, self, exc,
                  nLoad, nPopulate, irWrites, ncompile, llvmir, kwopts, nadded,
                  cu, logtxt, outbuf, libdevice_file, LibDevice_cache, ld, ret,
                  warned, unraisable, exitcode, nOpen >>

\* compile: nvvmGetCompiledResultSize(self._handle, byref(result_size))
CuResultSize ==
  /\ cpc = "size"
  /\ lpc = "call"
  /\ \E rc \in NativeResults :
       LET has == Has("nvvmGetCompiledResultSize")
           e == IF has THEN NoExc ELSE AttributeError("nvvmGetCompiledResultSize")
       IN /\ calls' = IF has THEN Append(calls, [f |-> "nvvmGetCompiledResultSize", rc |-> rc])
                      ELSE calls
          /\ outbuf' = IF has /\ rc = 0 THEN [size |-> Len(prog.result), buf |-> ""]
                       ELSE outbuf
          /\ perr' = IF has THEN rc ELSE perr
          /\ Advance(e, "size", "logsize")
  /\ UNCHANGED << args, lib, nvvm_lock, NVVM_INSTANCE, objs, npc, inst, self, exc,
                  nLoad, nPopulate, irWrites, ncompile, llvmir, kwopts, nadded,
                  cu, prog, logtxt, libdevice_file, LibDevice_cache, ld, ret,
                  warned, unraisable, exitcode, nOpen >>

\* compile: output_buffer = (c_char * result_size.value)();
\* nvvmGetCompiledResult(self._handle, output_buffer)
CuResult ==
  /\ cpc = "result"
  /\ lpc = "call"
  /\ \E rc \in NativeResults :
       LET has == Has("nvvmGetCompiledResult")
           e == IF has THEN NoExc ELSE AttributeError("nvvmGetCompiledResult")
       IN /\ calls' = IF has THEN Append(calls, [f |-> "nvvmGetCompiledResult", rc |-> rc,
                                                 size |-> outbuf.size])
                      ELSE calls
          /\ outbuf' = IF has /\ rc = 0 THEN [outbuf EXCEPT !.buf = prog.result] ELSE outbuf
          /\ perr' = IF has THEN rc ELSE perr
          /\ Advance(e, "result", "logsize")
  /\ UNCHANGED << args, lib, nvvm_lock, NVVM_INSTANCE, objs, npc, inst, self, exc,
                  nLoad, nPopulate, irWrites, ncompile, llvmir, kwopts, nadded,
                  cu, prog, logtxt, libdevice_file, LibDevice_cache, ld, ret,
                  warned, unraisable, exitcode, nOpen >>

\* warnings.warn(self.log, category=NvvmWarning) whatever the log is
warn_always(w, log) == Append(w, [category |-> "NvvmWarning", text |-> log])

\* if self.log: warnings.warn(self.log, category=NvvmWarning)
warn_if_log(w, log) ==
  IF log # "" THEN Append(w, [category |-> "NvvmWarning", text |-> log]) ELSE w

\* compile: self.log = self.get_log() once get_log() has returned; the
\* warning; return output_buffer[:], which compile_ir returns
CompileReturn ==
  /\ cpc = "getlog"
  /\ lpc = "check"
  /\ cu' = [cu EXCEPT !.log = logtxt]
  /\ warned' = warn_if_log(warned, logtxt)
  /\ ret' = [set |-> TRUE, value |-> outbuf.buf]
  /\ cpc' = "del"
  /\ lpc' = "none"
  /\ UNCHANGED << args, lib, nvvm_lock, NVVM_INSTANCE, objs, npc, inst, self, exc,
                  nLoad, nPopulate, irWrites, ncompile, llvmir, kwopts, nadded,
                  prog, perr, logtxt, outbuf, libdevice_file, LibDevice_cache, ld,
                  raised, unraisable, exitcode, calls, nOpen >>

\* CompilationUnit.__del__ starts: driver = NVVM()
CuDel ==
  /\ cpc = "del"
  /\ cpc' = "del_driver"
  /\ npc' = [npc EXCEPT ![Caller] = "new"]
  /\ exc' = [exc EXCEPT ![Caller] = NoExc]
  /\ inst' = [inst EXCEPT ![Caller] = 0]
  /\ self' = [self EXCEPT ![Caller] = 0]
  /\ UNCHANGED << args, lib, nvvm_lock, NVVM_INSTANCE, objs, nLoad, nPopulate, irWrites,
                  lpc, ncompile, llvmir, kwopts, nadded, cu, prog, perr, logtxt,
                  outbuf, libdevice_file, LibDevice_cache, ld, ret, raised,
                  warned, unraisable, exitcode, calls, nOpen >>

\* the rest of __del__: nvvmDestroyProgram(byref(self._handle)) and
\* check_error(err, "Failed to destroy CU", exit=True).  An exception that
\* leaves __del__, the SystemExit of sys.exit(1) included, is reported on
\* stderr and ignored by the interpreter; the process goes on.
CuDestroy ==
  /\ cpc = "del_driver"
  /\ npc[Caller] \in {"done", "raised"}
  /\ npc' = [npc EXCEPT ![Caller] = "idle"]
  /\ \E rc \in NativeResults :
       LET ok == npc[Caller] = "done"
           has == ok /\ "nvvmDestroyProgram" \in objs[self[Caller]].table
           called == has /\ cu.handle # "unset"
           e == IF ~ok THEN exc[Caller]
                ELSE IF ~has THEN AttributeError("nvvmDestroyProgram")
                ELSE IF ~called THEN AttributeError("_handle")
                ELSE check_error(rc, "Failed to destroy CU", TRUE)
       IN /\ calls' = IF called
                        THEN Append(calls, [f |-> "nvvmDestroyProgram", rc |-> rc,
                                            handle |-> cu.handle])
                        ELSE calls
          /\ cu' = IF called /\ rc = 0 THEN [cu EXCEPT !.handle = "destroyed"] ELSE cu
          /\ unraisable' = IF e # NoExc THEN Append(unraisable, e) ELSE unraisable
          /\ exitcode' = exitcode
  /\ cpc' = "idle"
  /\ UNCHANGED << args, lib, nvvm_lock, NVVM_INSTANCE, objs, inst, self, exc, nLoad,
                  nPopulate, irWrites, lpc, ncompile, llvmir, kwopts, nadded,
                  prog, perr, logtxt, outbuf, libdevice_file, LibDevice_cache, ld,
                  ret, raised, warned, nOpen >>

\* no compile_ir call has been made; the library and the libdevice file are
\* parameters of the run
InitCompile ==
  /\ lib \in {l \in Libs : l.irVer = << 1, 8, 3, 1 >> /\ l.irErr \in NativeResults}
  /\ libdevice_file \in {None, "libdevice.10.bc"}
  /\ NvvmStart("idle")
  /\ CuStart
  /\ AtomIdle
  /\ IrIdle

NextCompile ==
  \/ (\E i \in 1..Len(CallSamples) :
        CompileIr(CallSamples[i].llvmir, CallSamples[i].options))
     /\ UNCHANGED << atomVars, irVars >>
  \/ NvvmStep(Caller) /\ UNCHANGED << atomVars, cuVars, irVars >>
  \/ CuCreate /\ UNCHANGED << atomVars, irVars >>
  \/ CuAddModule /\ UNCHANGED << atomVars, irVars >>
  \/ CuVerify /\ UNCHANGED << atomVars, irVars >>
  \/ GetLogSize /\ UNCHANGED << atomVars, irVars >>
  \/ GetLog /\ UNCHANGED << atomVars, irVars >>
  \/ TryError /\ UNCHANGED << atomVars, irVars >>
  \/ LibDeviceInit /\ UNCHANGED << atomVars, irVars >>
  \/ CuLazyAdd /\ UNCHANGED << atomVars, irVars >>
  \/ CuCompile /\ UNCHANGED << atomVars, irVars >>
  \/ CuResultSize /\ UNCHANGED << atomVars, irVars >>
  \/ CuResult /\ UNCHANGED << atomVars, irVars >>
  \/ CompileReturn /\ UNCHANGED << atomVars, irVars >>
  \/ CuDel /\ UNCHANGED << atomVars, irVars >>
  \/ CuDestroy /\ UNCHANGED << atomVars, irVars >>

SpecCompile == InitCompile /\ [][NextCompile]_vars

(***************************************************************************)
(* Properties of compile_ir (SpecCompile)                                  *)
(***************************************************************************)
\* the positions in calls of the native calls named f
CallsOf(f) == {i \in 1..Len(calls) : calls[i].f = f}

\* the names of the calls that build and run the program, in call order
\* (the log and result queries and the destroy call left out)
MainCalls ==
  LET main == {"nvvmCreateProgram", "nvvmAddModuleToProgram", "nvvmVerifyProgram",
               "nvvmLazyAddModuleToProgram", "nvvmCompileProgram"}
      sel == SelectSeq(calls, LAMBDA c : c.f \in main)
  IN [i \in 1..Len(sel) |-> sel[i].f]

\* create, one eager add per caller module, verify, lazy add, compile
SuccessOrder ==
  << "nvvmCreateProgram" >>
    \o [i \in 1..Len(llvmir) |-> "nvvmAddModuleToProgram"]
    \o << "nvvmVerifyProgram", "nvvmLazyAddModuleToProgram", "nvvmCompileProgram" >>

\* compile_ir has returned the compiled result
Succeeded == ret.set

\* C11: in compile_ir the libdevice module is added only by the lazy add
\* call, whose buffer is the libdevice bitcode, and only after verify has
\* succeeded on all of the caller's modules, every one of them added by an
\* eager add before the verify; compile is called only after a successful
\* lazy add; when compile_ir succeeds the program-building calls were, in
\* order, create, one eager add per caller module, verify, lazy add, compile.
C11_CallOrder ==
  /\ \A i \in CallsOf("nvvmLazyAddModuleToProgram") :
       /\ calls[i].buf = open_libdevice(libdevice_file)
       /\ \E j \in CallsOf("nvvmVerifyProgram") :
            /\ j < i
            /\ calls[j].rc = 0
            /\ \A k \in CallsOf("nvvmAddModuleToProgram") : k < j /\ calls[k].rc = 0
            /\ Cardinality(CallsOf("nvvmAddModuleToProgram")) = Len(llvmir)
  /\ \A i \in CallsOf("nvvmAddModuleToProgram") :
       \E m \in 1..Len(llvmir) : calls[i].buf = encode(llvm_replace(llvmir[m]).ir)
  /\ \A i \in CallsOf("nvvmCompileProgram") :
       \E j \in CallsOf("nvvmLazyAddModuleToProgram") : j < i /\ calls[j].rc = 0
  /\ Succeeded => MainCalls = SuccessOrder

\* a compile_ir call with two caller modules has returned its result
C11_Witness == Succeeded /\ Len(llvmir) = 2 /\ cpc = "del"

\* the native compiler calls made so far by the running compile_ir
CompilerCalls ==
  CallsOf("nvvmCreateProgram") \cup CallsOf("nvvmAddModuleToProgram")
    \cup CallsOf("nvvmVerifyProgram")

\* compile_ir has ended with the missing-libdevice error
MissingLibdeviceSignalled ==
  raised = [type |-> "RuntimeError", msg |-> MISSING_LIBDEVICE_FILE_MSG]

\* C12: when the libdevice file cannot be located, compile_ir makes no
\* native compiler call (create program, add module, verify): by the time
\* the missing-libdevice error is signalled none has been attempted, and a
\* run without the file never attempts one.
C12_MissingFirst ==
  /\ MissingLibdeviceSignalled => CompilerCalls = {}
  /\ libdevice_file = None => CompilerCalls = {}

\* C13: across the LibDevice constructions of a process (one per compile_ir
\* call that gets past verify) the libdevice file is opened at most once.
C13_OpenedOnce == nOpen <= 1

\* verify() has ended (returned or raised) in the running compile_ir
VerifyEnded == CallsOf("nvvmVerifyProgram") # {} /\ cpc # "verify"

\* C14: when nvvmVerifyProgram returned a non-success code, verify() raises
\* an NvvmError with the name of that code and with the message
\* "Failed to verify\n" followed by the program's current log text, and
\* compile_ir then neither adds libdevice nor calls compile.
C14_VerifyFailure ==
  \A i \in CallsOf("nvvmVerifyProgram") :
    (calls[i].rc # 0 /\ VerifyEnded) =>
      /\ raised = [type |-> "NvvmError",
                   msg |-> "Failed to verify\n" \o "\n" \o prog.log,
                   name |-> RESULT_CODE_NAMES[calls[i].rc + 1]]
      /\ CallsOf("nvvmLazyAddModuleToProgram") = {}
      /\ CallsOf("nvvmCompileProgram") = {}

(***************************************************************************)
(* Properties of check_error, applied by NVVM.__init__ to the result of    *)
(* nvvmIRVersion (SpecNVVM: every result code is a library of some run)    *)
(***************************************************************************)
\* the enumeration of nvvmResult: the name of each non-success code
NvvmResultName(code) ==
  CASE code = 1 -> "NVVM_ERROR_OUT_OF_MEMORY"
    [] code = 2 -> "NVVM_ERROR_PROGRAM_CREATION_FAILURE"
    [] code = 3 -> "NVVM_ERROR_IR_VERSION_MISMATCH"
    [] code = 4 -> "NVVM_ERROR_INVALID_INPUT"
    [] code = 5 -> "NVVM_ERROR_INVALID_PROGRAM"
    [] code = 6 -> "NVVM_ERROR_INVALID_IR"
    [] code = 7 -> "NVVM_ERROR_INVALID_OPTION"
    [] code = 8 -> "NVVM_ERROR_NO_MODULE_IN_PROGRAM"
    [] code = 9 -> "NVVM_ERROR_COMPILATION"

\* thread t's __init__ has passed nvvmIRVersion's result to check_error
Checked(t) ==
  /\ npc[t] \in {"done", "raised"}
  /\ self[t] # 0
  /\ "nvvmIRVersion" \in objs[self[t]].table

\* C15: check_error raises nothing for the success code 0 and for each code
\* 1..9 raises an NvvmError carrying the name of exactly that code in the
\* nvvmResult enumeration; the nine names are pairwise distinct.
C15_ErrorNames ==
  /\ \A t \in Threads :
       Checked(t) =>
         IF lib.irErr = 0
           THEN npc[t] = "done" /\ exc[t] = NoExc
           ELSE /\ npc[t] = "raised"
                /\ exc[t].type = "NvvmError"
                /\ exc[t].name = NvvmResultName(lib.irErr)
  /\ \A a, b \in 1..9 :
       check_error(a, "", FALSE).name = check_error(b, "", FALSE).name => a = b

\* an NVVM() call has raised the NvvmError of code 7
C15_Witness ==
  \E t \in Threads : Checked(t) /\ lib.irErr = 7 /\ exc[t].type = "NvvmError"

\* nvvmCreateProgram has produced a program handle in the running compile_ir
HandleCreated == \E i \in CallsOf("nvvmCreateProgram") : calls[i].rc = 0

\* the CompilationUnit of the latest compile_ir has been finalized
Finalized == ncompile > 0 /\ cpc = "idle"

\* C16: a program handle that was created is destroyed exactly once (never
\* twice, and once when the CompilationUnit has been finalized), whatever
\* state compile_ir ended in, and a non-success result of the destroy call
\* on it makes the process exit instead of raising a catchable error.
C16_DestroyOrExit ==
  /\ Cardinality(CallsOf("nvvmDestroyProgram")) <= 1
  /\ (HandleCreated /\ Finalized) => Cardinality(CallsOf("nvvmDestroyProgram")) = 1
  /\ \A i \in CallsOf("nvvmDestroyProgram") :
       (HandleCreated /\ calls[i].rc # 0) => exitcode # Undef

\* CompilationUnit.__init__ has stored self.options and self.n_options
OptionsSet == cu.n_options # Undef

\* name with every '_' replaced by '-'
Dashed(name) == Join([j \in 1..Len(name) |-> IF name[j] = "_" THEN "-" ELSE name[j]])

\* C19: for every option entry (name, value) the token is '-<name>' when the
\* value is None, '-<name>=1' / '-<name>=0' when it is True / False, and
\* '-<name>=<value>' for any other value, <name> being the name with every
\* '_' replaced by '-' (the value is left as it is); so gen_lto=None gives
\* -gen-lto, prec_sqrt=True gives -prec-sqrt=1, prec_div=False gives
\* -prec-div=0, opt=-12 gives -opt=-12 and arch="compute_75" gives
\* -arch=compute_75.
C19_OptionEncoding ==
  OptionsSet =>
    /\ Len(cu.options) = Len(kwopts)
    /\ \A i \in 1..Len(kwopts) :
         LET name == Dashed(kwopts[i].k)
             v == kwopts[i].v
         IN /\ cu.options[i] =
                 [bytes |-> CASE v.t = "None" -> "-" \o name
                              [] v.t = "bool" /\ v.v -> "-" \o name \o "=1"
                              [] v.t = "bool" /\ ~v.v -> "-" \o name \o "=0"
                              [] OTHER -> "-" \o name \o "=" \o format(v)]
            /\ (name = "gen-lto" /\ v.t = "None") => cu.options[i].bytes = "-gen-lto"
            /\ (name = "prec-sqrt" /\ v.t = "bool" /\ v.v) =>
                 cu.options[i].bytes = "-prec-sqrt=1"
            /\ (name = "prec-div" /\ v.t = "bool" /\ ~v.v) =>
                 cu.options[i].bytes = "-prec-div=0"
            /\ (name = "opt" /\ v.t = "int" /\ v.v = 0 - 12) =>
                 cu.options[i].bytes = "-opt=-12"
            /\ (name = "arch" /\ v.t = "str" /\ v.v = "compute_75") =>
                 cu.options[i].bytes = "-arch=compute_75"

\* a CompilationUnit was built from gen_lto=None, prec_sqrt=True, opt=-12
C19_Witness ==
  /\ OptionsSet
  /\ kwopts = << Item(k_gen_lto, PyNone), Item(k_prec_sqrt, PyBool(TRUE)),
                 Item(k_opt, PyInt(0 - 12)) >>
  /\ cu.options = << [bytes |-> "-gen-lto"], [bytes |-> "-prec-sqrt=1"],
                     [bytes |-> "-opt=-12"] >>

\* the list and the count that verify and compile pass are the session's
PassedOptions ==
  \A i \in CallsOf("nvvmVerifyProgram") \cup CallsOf("nvvmCompileProgram") :
    calls[i].n = cu.n_options /\ calls[i].opts = cu.options

\* the option list holds one token per entry of the mapping, the i-th token
\* encoding the i-th entry, and n_options is its length
OneTokenPerEntry ==
  /\ Len(cu.options) = Len(kwopts)
  /\ cu.n_options = Len(kwopts)
  /\ \A i \in 1..Len(kwopts) : cu.options[i] = stringify_option(kwopts[i].k, kwopts[i].v)

\* no step of a session changes its option list or count
OptionsKept ==
  (OptionsSet /\ ncompile' = ncompile) =>
     (cu'.options = cu.options /\ cu'.n_options = cu.n_options)

\* C20: once built, the option list has exactly one token per entry of the
\* configuration mapping, in the mapping's insertion order, with n_options
\* its length; every verify and compile call of the session passes that list
\* and that count; no step of the session changes them.
C20_OptionsFixed ==
  /\ [](OptionsSet => (OneTokenPerEntry /\ PassedOptions))
  /\ [][OptionsKept]_vars

\* verify and compile have both been called in a session with four options
C20_Witness ==
  /\ OptionsSet
  /\ cu.n_options = 4
  /\ CallsOf("nvvmVerifyProgram") # {}
  /\ CallsOf("nvvmCompileProgram") # {}

\* the option tokens of the running session, as text
Tokens == [i \in 1..Len(cu.options) |-> cu.options[i].bytes]

\* the ways a token could spell the fastmath key
FastmathTokens ==
  {"-fastmath", "-fastmath=1", "-fastmath=0", "-fastmath=True", "-fastmath=False"}

\* entry e of the passed options is fastmath=b
IsFastmath(e, b) == e.k = k_fastmath /\ e.v.t = "bool" /\ e.v.v = b

\* C21: in compile_ir, fastmath=True with no other options yields exactly the
\* four tokens -ftz=1, -fma=1, -prec-div=0, -prec-sqrt=0 in that order; no
\* token ever spells the fastmath key; with fastmath=False or absent the
\* tokens are those of the other options, one each and in their order.
C21_Fastmath ==
  OptionsSet =>
    LET passed == args.options
        others == SelectSeq(passed, LAMBDA e : e.k # k_fastmath)
    IN /\ (Len(passed) = 1 /\ IsFastmath(passed[1], TRUE)) =>
            Tokens = << "-ftz=1", "-fma=1", "-prec-div=0", "-prec-sqrt=0" >>
       /\ \A i \in 1..Len(Tokens) : Tokens[i] \notin FastmathTokens
       /\ (\/ k_fastmath \notin Keys(passed)
           \/ \E i \in 1..Len(passed) : IsFastmath(passed[i], FALSE)) =>
            /\ Len(Tokens) = Len(others)
            /\ \A i \in 1..Len(others) :
                 cu.options[i] = stringify_option(others[i].k, others[i].v)

\* a CompilationUnit was built by compile_ir(llvmir, fastmath=True)
C21_Witness ==
  /\ OptionsSet
  /\ Len(args.options) = 1
  /\ IsFastmath(args.options[1], TRUE)
  /\ Len(Tokens) = 4

\* the four options fastmath stands for, with the token each is emitted as
FastmathNames ==
  << [k |-> k_ftz, tok |-> "-ftz=1"], [k |-> k_fma, tok |-> "-fma=1"],
     [k |-> k_prec_div, tok |-> "-prec-div=0"], [k |-> k_prec_sqrt, tok |-> "-prec-sqrt=0"] >>

FastmathKeys == {FastmathNames[n].k : n \in 1..Len(FastmathNames)}

\* the entries of d other than fastmath and the four options it stands for
OtherOptions(d) == SelectSeq(d, LAMBDA e : e.k \notin FastmathKeys \cup {k_fastmath})

\* compile_ir was called with fastmath=True
FastmathOn == \E i \in 1..Len(args.options) : IsFastmath(args.options[i], TRUE)

\* C33: when compile_ir is called with fastmath=True, the tokens of ftz, fma,
\* prec-div and prec-sqrt are -ftz=1, -fma=1, -prec-div=0 and -prec-sqrt=0
\* whatever the caller passed for those keys, each of the four names is
\* emitted exactly once, and the tokens of all other caller options are
\* emitted in the caller's relative order.
C33_FastmathOverrides ==
  (OptionsSet /\ FastmathOn) =>
    /\ Len(Tokens) = Len(kwopts)
    /\ \A n \in 1..Len(FastmathNames) :
         /\ Cardinality({i \in 1..Len(kwopts) : kwopts[i].k = FastmathNames[n].k}) = 1
         /\ Cardinality({i \in 1..Len(Tokens) : Tokens[i] = FastmathNames[n].tok}) = 1
         /\ \A i \in 1..Len(kwopts) :
              kwopts[i].k = FastmathNames[n].k => Tokens[i] = FastmathNames[n].tok
    /\ OtherOptions(kwopts) = OtherOptions(args.options)
    /\ \A i \in 1..Len(kwopts) :
         kwopts[i].k \notin FastmathKeys =>
           cu.options[i] = stringify_option(kwopts[i].k, kwopts[i].v)

\* a CompilationUnit was built by compile_ir(llvmir, ftz=False, opt=10,
\* prec_div=True, fastmath=True)
C33_Witness ==
  /\ OptionsSet
  /\ FastmathOn
  /\ Len(args.options) = 4
  /\ args.options[1].k = k_ftz
  /\ args.options[3].k = k_prec_div
  /\ Tokens = << "-ftz=1", "-opt=10", "-prec-div=0", "-fma=1", "-prec-sqrt=0" >>

\* C22: the compiled result is fetched only after nvvmCompileProgram and then
\* nvvmGetCompiledResultSize have both returned success, into a buffer whose
\* length is the size the compiler reported for its result; what compile_ir
\* returns is that buffer, filled with the compiler's result; and every
\* nvvmGetProgramLog call directly follows an nvvmGetProgramLogSize call that
\* returned success.
C22_SizeThenFetch ==
  /\ \A i \in CallsOf("nvvmGetCompiledResult") :
       /\ \E j \in CallsOf("nvvmCompileProgram"), k \in CallsOf("nvvmGetCompiledResultSize") :
            j < k /\ k < i /\ calls[j].rc = 0 /\ calls[k].rc = 0
       /\ calls[i].size = Len(prog.result)
  /\ Succeeded =>
       /\ \E i \in CallsOf("nvvmGetCompiledResult") :
            calls[i].rc = 0 /\ Len(ret.value) = calls[i].size
       /\ ret.value = prog.result
       /\ ret.value \in Results
  /\ \A i \in CallsOf("nvvmGetProgramLog") :
       /\ i > 1
       /\ calls[i - 1].f = "nvvmGetProgramLogSize"
       /\ calls[i - 1].rc = 0

\* compile_ir has returned the five bytes LTOIR and a log was fetched
C22_Witness ==
  /\ Succeeded
  /\ ret.value = "LTOIR"
  /\ CallsOf("nvvmGetProgramLog") # {}

\* compile() has retrieved the final log: self.log is set
LogRetrieved == cu.log # None

\* C23: once compile() has succeeded and retrieved the diagnostic log, an
\* NvvmWarning carrying the log text has been issued if and only if that log
\* is non-empty (a log reported with size 0 or 1 is the empty log and gives
\* no warning), and in both cases compile_ir has returned the compiled result
\* and raised nothing.
C23_WarningIffLog ==
  LogRetrieved =>
    /\ cu.log # "" => warned = << [category |-> "NvvmWarning", text |-> cu.log] >>
    /\ cu.log = "" => warned = << >>
    /\ cu.log = prog.log
    /\ LET q == CHOOSE i \in CallsOf("nvvmGetProgramLogSize") :
                  \A j \in CallsOf("nvvmGetProgramLogSize") : j <= i
       IN (q = Len(calls) \/ calls[q + 1].f # "nvvmGetProgramLog") =>
            (cu.log = "" /\ warned = << >>)
    /\ Succeeded
    /\ ret.value = prog.result
    /\ raised = NoExc

\* compile_ir has returned its result with a warning issued
C23_Witness == LogRetrieved /\ Succeeded /\ Len(warned) = 1 /\ cu.log = "warning: w"

\* the modules the running compile_ir was given, a single string being one
\* module
GivenModules == IF args.llvmir.ty = "str" THEN << args.llvmir.v >> ELSE args.llvmir.v

\* the eager add calls of the running compile_ir, in call order
EagerAdds == SelectSeq(calls, LAMBDA c : c.f = "nvvmAddModuleToProgram")

\* text t has a line that llvm_replace rewrites: a declaration of the table,
\* an immarg token, or willreturn in an attribute group
Unreplaced(t) ==
  \E i \in 1..Len(t) :
    \/ t[i].k = "declare" /\ t[i].row \in 1..Len(replacements)
    \/ t[i].k = "text" /\ \E j \in 1..Len(t[i].toks) : t[i].toks[j] = "immarg"
    \/ t[i].k = "attributes" /\ \E j \in 1..Len(t[i].body) : t[i].body[j] \in Listed

\* C29: in compile_ir the j-th eager add passes the j-th of the given modules
\* (a single string being a one-module list) as llvm_replace returned it,
\* with no table declaration, immarg or willreturn left in it; and by the
\* time verify is called every given module has been added, each add having
\* returned success.
C29_ReplacedThenAdded ==
  /\ Len(EagerAdds) <= Len(GivenModules)
  /\ \A j \in 1..Len(EagerAdds) :
       /\ EagerAdds[j].buf = encode(llvm_replace(GivenModules[j]).ir)
       /\ ~Unreplaced(EagerAdds[j].buf.bytes)
  /\ \A i \in CallsOf("nvvmVerifyProgram") :
       /\ Len(EagerAdds) = Len(GivenModules)
       /\ \A k \in CallsOf("nvvmAddModuleToProgram") : k < i /\ calls[k].rc = 0

\* verify has been called after the two modules of a list were added, the
\* first of them with a declaration replaced
C29_Witness ==
  /\ CallsOf("nvvmVerifyProgram") # {}
  /\ args.llvmir.ty = "list"
  /\ Len(EagerAdds) = 2
  /\ EagerAdds[1].buf # encode(GivenModules[1])
  /\ EagerAdds[1].buf # EagerAdds[2].buf

\* C34: nvvmDestroyProgram is only ever called for a program handle that an
\* nvvmCreateProgram call successfully produced: when constructing a
\* CompilationUnit fails (the library is unavailable, or nvvmCreateProgram
\* returns a non-success code), no destroy call is made for that object.
C34_DestroyOnlyCreated ==
  \A i \in CallsOf("nvvmDestroyProgram") :
    /\ calls[i].handle = "live"
    /\ \E j \in CallsOf("nvvmCreateProgram") : j < i /\ calls[j].rc = 0

(***************************************************************************)
(* Part 4a: llvm_replace as a function of IR text.  A run takes one sample *)
(* text and applies llvm_replace to it, and again to what it returned.     *)
(* The sample lines are written as LLVM prints them: tokens separated by   *)
(* one space, an attribute group as "attributes #n = { a b c }".           *)
(***************************************************************************)
LineSamples ==
  << DeclLine(1),
     TextLine(<< "call", "void", "immarg" >>),
     AttrLine(0, << "nounwind", "willreturn" >>),
     AttrLine(1, << "willreturn" >>),
     AttrLine(2, << "nounwind", "readnone" >>),
     AttrLine(3, << "nounwind", "\"target-cpu\"=\"sm_75\"" >>),
     AttrLine(4, << "willreturn", "nounwind", "immarg" >>),
     TextLine(<< "immimmargarg" >>),
     AttrLine(5, << "immarg" >>) >>

\* how many lines a sample text has at most
MaxLines == 2

\* how many times llvm_replace is applied in a run
MaxPasses == 2

\* the sample texts: one to MaxLines sample lines
TextSamples ==
  UNION {[1..n -> {LineSamples[i] : i \in 1..Len(LineSamples)}] : n \in 1..MaxLines}

\* the text pass number p is applied to
PassInput(p) == IF p = 1 THEN ir_in ELSE passes[p - 1].ir

\* llvmir = llvm_replace(llvmir), on the text the previous pass returned
LlvmReplace ==
  /\ ir_in # << >>
  /\ Len(passes) < MaxPasses
  /\ IF passes = << >> THEN TRUE ELSE ~passes[Len(passes)].raised
  /\ LET r == llvm_replace(PassInput(Len(passes) + 1))
     IN passes' = Append(passes, [raised |-> r.raised,
                                  ir |-> IF r.raised THEN << >> ELSE r.ir])
  /\ UNCHANGED << ir_in, module, attributes, kcall, kexc, walk >>

InitText ==
  /\ ir_in \in TextSamples
  /\ passes = << >>
  /\ ModuleIdle
  /\ WalkIdle
  /\ DriverIdle
  /\ AtomIdle

NextText == LlvmReplace /\ UNCHANGED << atomVars, nvvmVars, cuVars >>

SpecText == InitText /\ [][NextText]_vars

(***************************************************************************)
(* Properties of llvm_replace (SpecText)                                   *)
(***************************************************************************)
\* C24: llvm_replace is idempotent: applied to the text it returned, it
\* returns that same text.
C24_Idempotent == Len(passes) >= 2 => passes[2] = passes[1]

\* the attribute-group lines of text t
AttrLines(t) == {i \in 1..Len(t) : t[i].k = "attributes"}

\* C25: a pass over a text whose attribute-group lines each hold at least
\* one token that is not on the removal list raises nothing and returns
\* each such line with exactly its listed tokens removed and the others in
\* their order: unchanged when it held no listed token.
C25_StripsOnlyListed ==
  \A p \in 1..Len(passes) :
    LET t == PassInput(p) IN
    (\A i \in AttrLines(t) : \E j \in 1..Len(t[i].body) : t[i].body[j] \notin Listed) =>
      /\ ~passes[p].raised
      /\ \A i \in AttrLines(t) :
           passes[p].ir[i] =
             AttrLine(t[i].id, SelectSeq(t[i].body, LAMBDA a : a \notin Listed))

(***************************************************************************)
(* Part 4b: set_cuda_kernel and set_launch_bounds on an llvmlite module.   *)
(* A metadata node is the tuple of its operands (module.add_metadata       *)
(* returns the node it already has for equal operands); a named metadata   *)
(* collection is its name and the sequence of its operand nodes; a global  *)
(* variable is its name, linkage, section and initializer.                 *)
(***************************************************************************)
\* module.add_metadata(operands): a new node unless the module has one with
\* these operands
add_metadata(m, operands) ==
  IF \E i \in 1..Len(m.metadata) : m.metadata[i] = operands
    THEN m
    ELSE [m EXCEPT !.metadata = Append(@, operands)]

\* the module has a named metadata collection called name
HasNamed(m, name) == \E i \in 1..Len(m.named) : m.named[i].name = name

\* cgutils.get_or_insert_named_metadata(module, name): the collection of that
\* name, added empty when the module has none
get_or_insert_named_metadata(m, name) ==
  IF HasNamed(m, name) THEN m
  ELSE [m EXCEPT !.named = Append(@, [name |-> name, operands |-> << >>])]

\* nmd.add(md) on the collection called name
nmd_add(m, name, md) ==
  [m EXCEPT !.named =
     [i \in 1..Len(@) |->
        IF @[i].name = name THEN [@[i] EXCEPT !.operands = Append(@, md)] ELSE @[i]]]

\* the operand nodes of the collection called name (none without it)
Operands(m, name) ==
  IF HasNamed(m, name)
    THEN m.named[CHOOSE i \in 1..Len(m.named) : m.named[i].name = name].operands
    ELSE << >>

\* the module has a global called name
HasGlobal(m, name) == \E i \in 1..Len(m.globals) : m.globals[i].name = name

\* set_cuda_kernel keeping noinline
set_cuda_kernel_keep_noinline(m, attrs, function) ==
  LET md == << function, "kernel", 1 >>
      m1 == add_metadata(m, md)
      m2 == nmd_add(get_or_insert_named_metadata(m1, "nvvm.annotations"),
                    "nvvm.annotations", md)
  IN IF HasGlobal(m2, "llvm.used")
       THEN [raised |-> [type |-> "DuplicatedNameError", name |-> "llvm.used"],
             module |-> m2, attributes |-> attrs]
       ELSE [raised |-> NoExc,
             module |-> [m2 EXCEPT !.globals =
                           Append(@, [name |-> "llvm.used", linkage |-> "appending",
                                      section |-> "llvm.metadata",
                                      initializer |-> << function >>])],
             attributes |-> attrs]

\* set_cuda_kernel(function): the kernel metadata, the llvm.used global
\* (ir.GlobalVariable raises when the module already has a global of that
\* name), function.attributes.discard("noinline")
set_cuda_kernel(m, attrs, function) ==
  LET md == << function, "kernel", 1 >>
      m1 == add_metadata(m, md)
      m2 == nmd_add(get_or_insert_named_metadata(m1, "nvvm.annotations"),
                    "nvvm.annotations", md)
  IN IF HasGlobal(m2, "llvm.used")
       THEN [raised |-> [type |-> "DuplicatedNameError", name |-> "llvm.used"],
             module |-> m2, attributes |-> attrs]
       ELSE [raised |-> NoExc,
             module |-> [m2 EXCEPT !.globals =
                           Append(@, [name |-> "llvm.used", linkage |-> "appending",
                                      section |-> "llvm.metadata",
                                      initializer |-> << function >>])],
             attributes |-> [attrs EXCEPT ![function] = @ \ {"noinline"}]]

\* the properties with the first two exchanged
properties_swapped == << "minctasm", "maxntidx", "cluster_max_blocks" >>

properties == << "maxntidx", "minctasm", "cluster_max_blocks" >>

\* zip(a, b)
zip(a, b) ==
  [i \in 1..(IF Len(a) < Len(b) THEN Len(a) ELSE Len(b)) |-> << a[i], b[i] >>]

\* for prop, bound in pairs: md = module.add_metadata((kernel, mdstr,
\* mdvalue)); nvvm_annotations.add(md)
RECURSIVE add_bounds(_, _, _)
add_bounds(m, kernel, pairs) ==
  IF pairs = << >> THEN m
  ELSE LET md == << kernel, Head(pairs)[1], Head(pairs)[2] >>
       IN add_bounds(nmd_add(add_metadata(m, md), "nvvm.annotations", md),
                     kernel, Tail(pairs))

ValueError(n) == [type |-> "ValueError", n |-> n]

\* the argument values of launch_bounds
LbNone == [t |-> "None"]
LbInt(n) == [t |-> "int", v |-> n]
LbTuple(s) == [t |-> "tuple", v |-> s]

\* set_launch_bounds testing the length only after it has fetched the
\* nvvm.annotations collection
set_launch_bounds_late_check(m, kernel, launch_bounds) ==
  IF launch_bounds.t = "None" THEN [raised |-> NoExc, module |-> m]
  ELSE LET lb == IF launch_bounds.t = "int" THEN << launch_bounds.v >> ELSE launch_bounds.v
           n == Len(lb)
           m1 == get_or_insert_named_metadata(m, "nvvm.annotations")
       IN IF n > 3 THEN [raised |-> ValueError(n), module |-> m1]
          ELSE [raised |-> NoExc, module |-> add_bounds(m1, kernel, zip(properties, lb))]

\* set_launch_bounds(kernel, launch_bounds)
set_launch_bounds(m, kernel, launch_bounds) ==
  IF launch_bounds.t = "None" THEN [raised |-> NoExc, module |-> m]
  ELSE LET lb == IF launch_bounds.t = "int" THEN << launch_bounds.v >> ELSE launch_bounds.v
           n == Len(lb)
       IN IF n > 3 THEN [raised |-> ValueError(n), module |-> m]
          ELSE LET m1 == get_or_insert_named_metadata(m, "nvvm.annotations")
               IN [raised |-> NoExc, module |-> add_bounds(m1, kernel, zip(properties, lb))]

\* sample launch_bounds arguments
LaunchBoundsSamples ==
  << LbNone, LbInt(128), LbTuple(<< >>), LbTuple(<< 128 >>), LbTuple(<< 256, 2 >>),
     LbTuple(<< 64, 2, 4 >>), LbTuple(<< 64, 2, 4, 8 >>), LbTuple(<< 32, 1, 1, 1, 1 >>) >>

\* sample function attributes
AttrSamples == {"noinline", "nounwind", "alwaysinline"}

\* how many annotator calls a run makes
MaxCalls == 2

\* the call record of the next call
KCall(f, fields) == [f |-> f, n |-> kcall.n + 1, module |-> module,
                     attributes |-> attributes, a |-> fields]

SetCudaKernel(function) ==
  /\ kcall.n < MaxCalls
  /\ LET r == set_cuda_kernel(module, attributes, function)
     IN /\ module' = r.module
        /\ attributes' = r.attributes
        /\ kexc' = r.raised
  /\ kcall' = KCall("set_cuda_kernel", [function |-> function])
  /\ UNCHANGED << ir_in, passes, walk >>

SetLaunchBounds(kernel, launch_bounds) ==
  /\ kcall.n < MaxCalls
  /\ LET r == set_launch_bounds(module, kernel, launch_bounds)
     IN /\ module' = r.module
        /\ kexc' = r.raised
  /\ kcall' = KCall("set_launch_bounds", [kernel |-> kernel, launch_bounds |-> launch_bounds])
  /\ UNCHANGED << ir_in, passes, attributes, walk >>

InitAnnotate ==
  /\ module = NoModule
  /\ attributes \in [Functions -> SUBSET AttrSamples]
  /\ kcall = NoKCall
  /\ kexc = NoExc
  /\ TextIdle
  /\ WalkIdle
  /\ DriverIdle
  /\ AtomIdle

NextAnnotate ==
  \/ (\E f \in Functions : SetCudaKernel(f)) /\ UNCHANGED << atomVars, nvvmVars, cuVars >>
  \/ (\E k \in Functions, i \in 1..Len(LaunchBoundsSamples) :
        SetLaunchBounds(k, LaunchBoundsSamples[i]))
     /\ UNCHANGED << atomVars, nvvmVars, cuVars >>

SpecAnnotate == InitAnnotate /\ [][NextAnnotate]_vars

(***************************************************************************)
(* Properties of set_launch_bounds and set_cuda_kernel (SpecAnnotate)      *)
(***************************************************************************)
\* the latest call was set_launch_bounds
LaunchCall == kcall.f = "set_launch_bounds"

\* the launch_bounds argument of the latest set_launch_bounds call
Bounds == kcall.a.launch_bounds

\* C26: a set_launch_bounds call with more than three values has raised the
\* ValueError and left the module as it found it: the same metadata nodes,
\* the same named metadata (no nvvm.annotations collection created, none
\* extended) and the same globals.
C26_TooManyBounds ==
  (LaunchCall /\ Bounds.t = "tuple" /\ Len(Bounds.v) > 3) =>
     /\ kexc = ValueError(Len(Bounds.v))
     /\ module = kcall.module
     /\ module.metadata = kcall.module.metadata
     /\ HasNamed(module, "nvvm.annotations") = HasNamed(kcall.module, "nvvm.annotations")
     /\ Operands(module, "nvvm.annotations") = Operands(kcall.module, "nvvm.annotations")

\* a call with four values has raised on a module that has no
\* nvvm.annotations collection
C26_Witness ==
  /\ LaunchCall
  /\ Bounds.t = "tuple"
  /\ Len(Bounds.v) = 4
  /\ kexc.type = "ValueError"
  /\ ~HasNamed(module, "nvvm.annotations")

\* the entries the latest call appended to nvvm.annotations: the operands
\* the collection has now, beyond those the call found
Attached ==
  LET before == Operands(kcall.module, "nvvm.annotations")
      now == Operands(module, "nvvm.annotations")
  IN SubSeq(now, Len(before) + 1, Len(now))

\* the call found every entry it did not append
KeptEntries ==
  LET before == Operands(kcall.module, "nvvm.annotations")
      now == Operands(module, "nvvm.annotations")
  IN Len(now) >= Len(before) /\ SubSeq(now, 1, Len(before)) = before

\* C27: set_launch_bounds(kernel, n) for an integer n leaves the module as
\* set_launch_bounds(kernel, (n,)) would; a call with a k-tuple, 0 <= k <= 3,
\* raises nothing and appends to nvvm.annotations exactly k entries, the i-th
\* being (kernel, the i-th of maxntidx, minctasm, cluster_max_blocks, the
\* i-th bound), so a 2-tuple gives maxntidx and minctasm and no
\* cluster_max_blocks; a call with None leaves the module as it found it.
C27_LaunchBounds ==
  LaunchCall =>
    LET kernel == kcall.a.kernel
        names == << "maxntidx", "minctasm", "cluster_max_blocks" >>
    IN /\ Bounds.t = "int" =>
            /\ module = set_launch_bounds(kcall.module, kernel, LbTuple(<< Bounds.v >>)).module
            /\ kexc = NoExc
            /\ Attached = << << kernel, "maxntidx", Bounds.v >> >>
       /\ (Bounds.t = "tuple" /\ Len(Bounds.v) <= 3) =>
            /\ kexc = NoExc
            /\ KeptEntries
            /\ Attached = [i \in 1..Len(Bounds.v) |-> << kernel, names[i], Bounds.v[i] >>]
            /\ \A i \in 1..Len(Attached) :
                 \E j \in 1..Len(module.metadata) : module.metadata[j] = Attached[i]
       /\ Bounds.t = "None" => (module = kcall.module /\ kexc = NoExc)

\* a call with a 2-tuple has attached maxntidx and minctasm to a module that
\* already had an entry
C27_Witness ==
  /\ LaunchCall
  /\ Bounds.t = "tuple"
  /\ Bounds.v = << 256, 2 >>
  /\ Len(Attached) = 2
  /\ Len(Operands(kcall.module, "nvvm.annotations")) > 0

\* the latest call was set_cuda_kernel and it returned
KernelSet == kcall.f = "set_cuda_kernel" /\ kexc = NoExc

\* the globals of the module called name
GlobalsNamed(name) == {i \in 1..Len(module.globals) : module.globals[i].name = name}

\* C30: once set_cuda_kernel(function) has returned, nvvm.annotations holds
\* an entry (function, "kernel", 1), every entry it held before is still
\* there, the module has one global llvm.used, whose initializer holds the
\* address of function and nothing else, and function.attributes is what it
\* was without noinline.
C30_KernelMarked ==
  KernelSet =>
    LET function == kcall.a.function
        entries == Operands(module, "nvvm.annotations")
    IN /\ \E i \in 1..Len(entries) : entries[i] = << function, "kernel", 1 >>
       /\ KeptEntries
       /\ Cardinality(GlobalsNamed("llvm.used")) = 1
       /\ \A i \in GlobalsNamed("llvm.used") : module.globals[i].initializer = << function >>
       /\ "noinline" \notin attributes[function]
       /\ attributes[function] = kcall.attributes[function] \ {"noinline"}

\* set_cuda_kernel has returned for a function that had noinline and
\* nounwind
C30_Witness ==
  /\ KernelSet
  /\ kcall.attributes[kcall.a.function] = {"noinline", "nounwind"}
  /\ attributes[kcall.a.function] = {"nounwind"}

(***************************************************************************)
(* Part 4c: the control flow of the synthesized functions.  A template is  *)
(* the record of its basic blocks, a block the sequence of its             *)
(* instructions in the order of the text; an instruction keeps its opcode, *)
(* the name it defines, and for a br its condition and its target labels.  *)
(* The walk executes one instruction per step and takes either target of   *)
(* a conditional br, so it follows every path of the function.             *)
(***************************************************************************)
MaxIters == 3

I(op, def) == [op |-> op, def |-> def, cond |-> "", to |-> << >>]

Br(cond, to) == [op |-> "br", def |-> "", cond |-> cond, to |-> to]

\* ir_cas with the cmpxchg and the extractvalue issued twice
ir_cas_twice ==
  << I("cmpxchg", "cas_success"), I("extractvalue", "cas"),
     I("cmpxchg", "cas_success"), I("extractvalue", "cas") >>

\* ir_cas(Ti): the text of cas_nvvm, a cmpxchg and the extractvalue of field 0
ir_cas ==
  << I("cmpxchg", "cas_success"), I("extractvalue", "cas") >>

ir_numba_atomic_binary_template ==
  [entry |-> << I("bitcast", "iptr"), I("load", "old2"), Br("", << "attempt" >>) >>,
   attempt |-> << I("phi", "old"), I("bitcast", "dold"), I("OP", "dnew"),
                  I("bitcast", "new") >>
               \o ir_cas
               \o << I("icmp", "repeat"), Br("repeat", << "attempt", "done" >>) >>,
   done |-> << I("bitcast", "result"), I("ret", "") >>]

ir_numba_atomic_inc_template ==
  [entry |-> << I("load", "old2"), Br("", << "attempt" >>) >>,
   attempt |-> << I("phi", "old"), I("icmp", "bndchk"), I("add", "inc"),
                  I("select", "new") >>
               \o ir_cas
               \o << I("icmp", "repeat"), Br("repeat", << "attempt", "done" >>) >>,
   done |-> << I("ret", "") >>]

ir_numba_atomic_dec_template ==
  [entry |-> << I("load", "old2"), Br("", << "attempt" >>) >>,
   attempt |-> << I("phi", "old"), I("add", "dec"), I("icmp", "bndchk"),
                  I("select", "new") >>
               \o ir_cas
               \o << I("icmp", "repeat"), Br("repeat", << "attempt", "done" >>) >>,
   done |-> << I("ret", "") >>]

ir_numba_atomic_minmax_template ==
  [entry |-> << I("load", "ptrval"), I("fcmp", "early_return"),
                Br("early_return", << "done", "lt_check" >>) >>,
   lt_check |-> << I("phi", "dold"), I("fcmp", "cmp"),
                   Br("cmp", << "attempt", "done" >>) >>,
   attempt |-> << I("bitcast", "old"), I("bitcast", "iptr"), I("bitcast", "new") >>
               \o ir_cas
               \o << I("bitcast", "dcas"), Br("", << "lt_check" >>) >>,
   done |-> << I("ret", "") >>]

\* the template a row of the table is formatted from
Template(i) ==
  CASE replacements[i].tmpl = "binary" -> ir_numba_atomic_binary_template
    [] replacements[i].tmpl = "inc" -> ir_numba_atomic_inc_template
    [] replacements[i].tmpl = "dec" -> ir_numba_atomic_dec_template
    [] OTHER -> ir_numba_atomic_minmax_template

\* the labels the terminator of block b branches to
Succ(T, b) ==
  LET term == T[b][Len(T[b])] IN {term.to[k] : k \in 1..Len(term.to)}

\* the blocks reachable from the blocks of S in one or more branches
RECURSIVE ReachFrom(_, _, _)
ReachFrom(T, S, seen) ==
  LET next == UNION {Succ(T, b) : b \in S} IN
  IF next \subseteq seen THEN seen ELSE ReachFrom(T, next \ seen, seen \cup next)

\* the blocks of the loop, and the block the loop is entered at
LoopBlocks(T) == {b \in DOMAIN T : b \in ReachFrom(T, {b}, {})}

Header(T) ==
  CHOOSE h \in LoopBlocks(T) : \E b \in DOMAIN T \ LoopBlocks(T) : h \in Succ(T, b)

Walking == walk.blk \notin {"none", "ret"}

Current == Template(walk.row)[walk.blk][walk.ip]

\* an instruction other than a terminator
WalkInst ==
  /\ Walking
  /\ Current.op \notin {"br", "ret"}
  /\ walk' = [walk EXCEPT
       !.ip = @ + 1,
       !.ncas = IF Current.op = "cmpxchg" THEN @ + 1 ELSE @,
       !.pend = IF Current.op = "cmpxchg" THEN TRUE ELSE @,
       !.cmps = IF Current.op \in {"icmp", "fcmp"} THEN @ \cup {Current.def} ELSE @]
  /\ UNCHANGED << ir_in, passes, module, attributes, kcall, kexc >>

\* a br: to either label when it is conditional.  A conditional br of a
\* block of the loop is a retry decision; the decision is made by a
\* comparison when its condition is the result of an icmp or fcmp.  The
\* branch back to the header ends an iteration, a branch out of the loop
\* ends the last, possibly partial, pass through it.
WalkBr ==
  /\ Walking
  /\ Current.op = "br"
  /\ LET T == Template(walk.row)
         inLoop == walk.blk \in LoopBlocks(T)
         decision == inLoop /\ Current.cond # ""
         ndec == walk.ndec + (IF decision /\ Current.cond \in walk.cmps THEN 1 ELSE 0)
         pend == IF decision THEN FALSE ELSE walk.pend
     IN \E k \in 1..Len(Current.to) :
          LET to == Current.to[k] IN
          IF inLoop /\ to = Header(T)
            THEN /\ walk.iters < MaxIters
                 /\ walk' = [walk EXCEPT !.blk = to, !.ip = 1, !.pend = pend,
                               !.iters = @ + 1,
                               !.last = [cas |-> walk.ncas, dec |-> ndec],
                               !.ncas = 0, !.ndec = 0, !.cmps = {}]
            ELSE IF inLoop /\ to \notin LoopBlocks(T)
              THEN walk' = [walk EXCEPT !.blk = to, !.ip = 1, !.pend = pend,
                              !.left = TRUE,
                              !.exit = [cas |-> walk.ncas, dec |-> ndec],
                              !.ncas = 0, !.ndec = 0, !.cmps = {}]
              ELSE walk' = [walk EXCEPT !.blk = to, !.ip = 1, !.pend = pend,
                              !.ndec = ndec]
  /\ UNCHANGED << ir_in, passes, module, attributes, kcall, kexc >>

\* ret: the invocation returns
WalkRet ==
  /\ Walking
  /\ Current.op = "ret"
  /\ walk' = [walk EXCEPT !.blk = "ret", !.ip = 0]
  /\ UNCHANGED << ir_in, passes, module, attributes, kcall, kexc >>

\* the walk starts at the entry of the function of any row of the table
InitWalk ==
  /\ \E i \in 1..Len(replacements) :
       walk = [NoWalk EXCEPT !.row = i, !.blk = "entry", !.ip = 1]
  /\ TextIdle
  /\ ModuleIdle
  /\ DriverIdle
  /\ AtomIdle

NextWalk ==
  \/ WalkInst /\ UNCHANGED << atomVars, nvvmVars, cuVars >>
  \/ WalkBr /\ UNCHANGED << atomVars, nvvmVars, cuVars >>
  \/ WalkRet /\ UNCHANGED << atomVars, nvvmVars, cuVars >>

SpecWalk == InitWalk /\ [][NextWalk]_vars

(***************************************************************************)
(* Properties of the control flow (SpecWalk)                               *)
(***************************************************************************)
\* C31: in every synthesized CAS loop (binary, inc, dec, min/max) each
\* completed iteration has executed exactly one cmpxchg and exactly one
\* conditional branch on the result of a comparison, which decided that the
\* loop is entered again; the pass that leaves the loop has executed at most
\* one cmpxchg and exactly one such deciding comparison; and at the return
\* no cmpxchg has been issued after the last retry decision.
C31_OneCasOneDecision ==
  /\ walk.iters > 0 => walk.last = [cas |-> 1, dec |-> 1]
  /\ walk.left => (walk.exit.cas <= 1 /\ walk.exit.dec = 1)
  /\ walk.blk = "ret" => ~walk.pend

\* a min/max function returned after two iterations of its loop
C31_Witness ==
  /\ walk.blk = "ret"
  /\ walk.row \in MinMaxRows
  /\ walk.iters >= 2
  /\ walk.left

(***************************************************************************)
(* Invocations of any mix of the synthesized functions on one word: all of *)
(* one element type, so add/sub with min/max on a floating-point word, or  *)
(* inc with dec on an integer word.  Every thread that can take a step     *)
(* eventually takes one (weak fairness per thread).                        *)
(***************************************************************************)
FloatRows == RowsOf({"binary", "minmax"})

InitAtomics ==
  /\ InitAtomic(FloatRows, FloatWords) \/ InitAtomic(IncDecRows, IntWords)
  /\ DriverIdle
  /\ IrIdle

Step(t) ==
  \/ BinaryEntry(t) \/ BinaryAttempt(t)
  \/ IncEntry(t) \/ IncAttempt(t)
  \/ DecEntry(t) \/ DecAttempt(t)
  \/ MinMaxEntry(t) \/ MinMaxAttempt(t)

NextAtomics == \E t \in Threads : Step(t)

SpecAtomics ==
  InitAtomics /\ [][NextAtomics]_vars /\ \A t \in Threads : WF_vars(Step(t))

\* thread t's cmpxchg fails in this step: the word does not hold %old, and
\* the phi of t takes the contents found instead
Fails(t) == pc[t] = "attempt" /\ mem # old[t] /\ old'[t] = mem

\* every invocation eventually returns
Termination == \A t \in Threads : <>Returned(t)

\* a cmpxchg fails only after another thread's successful change of the word
FailsOnlyAfterOther == \A t \in Threads : Fails(t) => changed[t]

\* C32: with finitely many concurrent invocations of any mix of the
\* synthesized functions on one word and weak fairness on each thread's
\* steps, every invocation eventually returns, and a CAS attempt fails only
\* if another thread's successful CAS changed the word since this thread
\* last observed it.
C32_LockFree == Termination /\ [][FailsOnlyAfterOther]_vars

=============================================================================
